---- MODULE Spec2Model ----
(***************************************************************************)
(* Victus: the Plan -> Policy-Approve -> Signature-Verified-Execute core.  *)
(* State machine of one request handled by a PolicyEngine and an           *)
(* ExecutionEngine (victus/core/policy.py, victus/core/executor.py), with  *)
(* the plugins of victus/domains.                                          *)
(*                                                                         *)
(* Python values are modelled as follows: a dataclass is a record, a list  *)
(* a sequence, a dict with string keys a function on its keys (the empty   *)
(* dict is the empty function), None the value None below.  A string that  *)
(* the code only compares is a string; policy_signature, which the code    *)
(* tests for emptiness and equality, is a sequence (the empty sequence is  *)
(* the empty string).                                                      *)
(***************************************************************************)
EXTENDS Integers, Sequences, FiniteSets, TLC

VARIABLES
    allowlist,      \* PolicyEngine.allowlist: tool -> set of actions
    denylist,       \* PolicyEngine.denylist: set of action or "tool.action"
    plugins,        \* ExecutionEngine.plugins: tool -> plugin
    phase,          \* position of the request: idle, planned, reviewed, executed
    originArg,      \* the origin argument the Plan was constructed with
    plan,           \* the Plan presented to the engines
    context,        \* the Context of the request
    approval,       \* the Approval held by the caller (None when none was issued)
    policyError,    \* message of the PolicyError evaluate raised ("" when none)
    issuedPlan,     \* history: the plan as it was when evaluate reviewed it
    issuedApproval, \* history: the approval as evaluate returned it
    entry,          \* which entry point ran: "execute" or "execute_streaming"
    callbacks,      \* execute_streaming: step ids with a chunk callback
    stops,          \* execute_streaming: step ids with a stop predicate
    results,        \* map step id -> plugin result, as execute built it
    execError,      \* message of the ExecutionError execute raised ("" when none)
    calls,          \* plugin methods invoked, in order
    breaker,        \* the LLMHealthCircuitBreaker of the process (None before it is built)
    now,            \* time.monotonic(), in seconds
    lastCall,       \* history: the latest call of a breaker method
    failures,       \* history: record_failure calls since the latest record_success
    threads,        \* worker thread -> its position inside record_failure
    confStep,       \* the PlanStep handed to ConfidenceEngine.evaluate_step
    retrievers,     \* ConfidenceEngine.retrieval_providers: intent -> callback
    evaluation,     \* the ConfidenceEvaluation returned (None before the call)
    confPlan,       \* the Plan handed to ConfidenceEngine.evaluate_plan
    planEvaluation, \* the ConfidencePlanEvaluation returned (None before the call)
    llmProvider,    \* the environment variable LLM_PROVIDER
    rawPlan,        \* the plan a caller hands to VictusApp.request_approval
    request,        \* the latest call of VictusApp: its method and user_input
    response,       \* what that call returned (None when it raised or none was made)
    raised,         \* message of the PolicyError that call raised ("" when none)
    trace,          \* history: the calls made while handling it, in order
    auditLog        \* AuditLogger.records

\* The variables of the plan/approve/execute core.
coreVars == <<allowlist, denylist, plugins, phase, originArg, plan, context, approval,
              policyError, issuedPlan, issuedApproval, entry, callbacks,
              stops, results, execError, calls>>

\* The variables of the circuit breaker.
breakerVars == <<breaker, now, lastCall, failures, threads>>

\* The variables of the confidence engine.
confidenceVars == <<confStep, retrievers, evaluation, confPlan, planEvaluation>>

\* The variables of the sanitizer.
sanitizerVars == <<llmProvider, rawPlan>>

\* The variables of the application's request handlers.
appVars == <<request, response, raised, trace, auditLog>>

\* The variables outside the plan/approve/execute core, and those outside each
\* of the other components.
serviceVars == <<breakerVars, confidenceVars, sanitizerVars, appVars>>
outsideBreaker == <<coreVars, confidenceVars, sanitizerVars, appVars>>
outsideConfidence == <<coreVars, breakerVars, sanitizerVars, appVars>>
outsideSanitizer == <<breakerVars, confidenceVars, appVars>>

vars == <<coreVars, serviceVars>>

(***************************************************************************)
(* Bounds of the model.                                                    *)
(***************************************************************************)
MaxSteps == 2

None == [none |-> TRUE]
EmptyDict == [k \in {} |-> ""]

(***************************************************************************)
(* victus/core/schemas.py                                                  *)
(***************************************************************************)
PrivacySettings(allow_screenshot, allow_send_to_openai, allow_store_images) ==
    [allow_screenshot |-> allow_screenshot,
     allow_send_to_openai |-> allow_send_to_openai,
     allow_store_images |-> allow_store_images]

StepIO(uses_screenshot) ==
    [uses_screenshot |-> uses_screenshot, uses_user_text |-> TRUE]

StepOutputs(produces_side_effect) ==
    [produces_text |-> TRUE, produces_side_effect |-> produces_side_effect]

PlanStep(id, tool, action, args, uses_screenshot) ==
    [id |-> id, tool |-> tool, action |-> action, args |-> args,
     inputs |-> StepIO(uses_screenshot), outputs |-> StepOutputs(FALSE)]

DataOutbound(to_openai) ==
    [to_openai |-> to_openai, content_types |-> <<"text">>, redaction_required |-> TRUE]

DefaultOrigin == "planner"

\* Plan(...): the constructed plan, or None when __post_init__ raises ValueError.
Plan(goal, domain, steps, requires_confirmation, data_outbound, risk, origin) ==
    LET o == IF origin = "<default>" THEN DefaultOrigin ELSE origin
    IN  IF \/ domain \notin {"system", "productivity", "mixed"}
           \/ risk \notin {"low", "medium", "high"}
           \/ steps = <<>>
           \/ o \notin {"planner", "router"}
        THEN None
        ELSE [goal |-> goal, domain |-> domain, steps |-> steps,
              requires_confirmation |-> requires_confirmation,
              data_outbound |-> data_outbound, risk |-> risk, notes |-> "",
              origin |-> o]

ApprovalConstraints(no_screenshot_store, redact_before_openai) ==
    [time_limit_sec |-> 30, no_screenshot_store |-> no_screenshot_store,
     redact_before_openai |-> redact_before_openai]

Approval(approved, approved_steps, requires_confirmation, constraints, policy_signature) ==
    [approved |-> approved, approved_steps |-> approved_steps,
     requires_confirmation |-> requires_confirmation, constraints |-> constraints,
     policy_signature |-> policy_signature]

(***************************************************************************)
(* Helpers for Python idioms.                                              *)
(***************************************************************************)
\* The message of the first exception raised by a loop whose i-th iteration
\* raises errs[i] ("" when it raises nothing).
FirstError(errs) ==
    IF \E i \in DOMAIN errs : errs[i] # ""
    THEN errs[CHOOSE i \in DOMAIN errs : errs[i] # "" /\ \A j \in 1..(i - 1) : errs[j] = ""]
    ELSE ""

\* The first of several checks in sequence that raises.
OrElse(e1, e2) == IF e1 # "" THEN e1 ELSE e2

InSeq(x, s) == \E i \in DOMAIN s : s[i] = x

(***************************************************************************)
(* victus/core/policy.py                                                   *)
(***************************************************************************)
DefaultAllowlist ==
    [system |-> {"open_app", "net_snapshot"}, spotify |-> {"play"}, gmail |-> {"send"},
     openai |-> {"draft", "draft_email", "summarize_text"}, docs |-> {"create"}]

DefaultDenylist == {"raw_shell", "kernel_exec", "firewall_modify"}

tool_domains ==
    [system |-> "system", spotify |-> "productivity", gmail |-> "productivity",
     openai |-> "productivity", docs |-> "productivity"]

signature_secret == "signed-policy"

\* PolicyEngine.__init__: `allowlist or {...}`, `set(denylist or {...})`;
\* an argument that is None or empty gives the default.
PolicyEngine_allowlist(arg) ==
    IF arg = None \/ DOMAIN arg = {} THEN DefaultAllowlist ELSE arg

PolicyEngine_denylist(arg) ==
    IF arg = {} THEN DefaultDenylist ELSE arg

sha256(payload) == <<payload>>

\* compute_policy_signature with the steps' args left out of the payload.
compute_policy_signature_without_args(p, approved_steps, constraints, requires_confirmation, secret) ==
    sha256([plan |->
               [goal |-> p.goal,
                domain |-> p.domain,
                risk |-> p.risk,
                requires_confirmation |-> p.requires_confirmation,
                data_outbound |-> p.data_outbound,
                steps |-> [i \in DOMAIN p.steps |->
                              [id |-> p.steps[i].id,
                               tool |-> p.steps[i].tool,
                               action |-> p.steps[i].action,
                               inputs |-> p.steps[i].inputs,
                               outputs |-> p.steps[i].outputs]]],
            approved_steps |-> approved_steps,
            approval_requires_confirmation |-> requires_confirmation,
            constraints |-> constraints,
            secret |-> secret])

compute_policy_signature(p, approved_steps, constraints, requires_confirmation, secret) ==
    sha256([plan |->
               [goal |-> p.goal,
                domain |-> p.domain,
                risk |-> p.risk,
                requires_confirmation |-> p.requires_confirmation,
                data_outbound |-> p.data_outbound,
                steps |-> [i \in DOMAIN p.steps |->
                              [id |-> p.steps[i].id,
                               tool |-> p.steps[i].tool,
                               action |-> p.steps[i].action,
                               args |-> p.steps[i].args,
                               inputs |-> p.steps[i].inputs,
                               outputs |-> p.steps[i].outputs]]],
            approved_steps |-> approved_steps,
            approval_requires_confirmation |-> requires_confirmation,
            constraints |-> constraints,
            secret |-> secret])

_is_domain_permitted(tool) ==
    tool \in DOMAIN tool_domains /\ tool_domains[tool] \in {"system", "productivity"}

\* _validate_step consulting the denylist only for what the allowlist does not allow.
_validate_step_allowlist_first(step) ==
    LET fully_qualified == step.tool \o "." \o step.action
    IN  IF step.tool \notin DOMAIN allowlist
        THEN "Unknown tool is not allowlisted"
        ELSE IF step.action \in allowlist[step.tool]
        THEN (IF ~_is_domain_permitted(step.tool)
              THEN "Tool is not permitted in its declared domain"
              ELSE "")
        ELSE IF fully_qualified \in denylist \/ step.action \in denylist
        THEN "Action is denylisted"
        ELSE "Action is not allowlisted"

_validate_step(step) ==
    LET fully_qualified == step.tool \o "." \o step.action
    IN  IF fully_qualified \in denylist \/ step.action \in denylist
        THEN "Action is denylisted"
        ELSE IF step.tool \notin DOMAIN allowlist
        THEN "Unknown tool is not allowlisted"
        ELSE IF step.action \notin allowlist[step.tool]
        THEN "Action is not allowlisted"
        ELSE IF ~_is_domain_permitted(step.tool)
        THEN "Tool is not permitted in its declared domain"
        ELSE ""

_validate_system_action(step) ==
    LET allowed == IF "system" \in DOMAIN allowlist THEN allowlist["system"] ELSE {}
    IN  IF step.action \notin allowed
        THEN "System action is not allowlisted"
        ELSE ""

_requires_gmail_confirmation(p) ==
    \E i \in DOMAIN p.steps : p.steps[i].tool = "gmail" /\ p.steps[i].action = "send"

\* enforce_plan_domain looking at the first step only.
enforce_plan_domain_first_step(p) ==
    LET step == p.steps[1]
    IN  IF step.tool \notin DOMAIN tool_domains
        THEN "Unknown tool is not mapped to a domain"
        ELSE IF p.domain = "mixed"
        THEN ""
        ELSE IF p.domain = "system" /\ tool_domains[step.tool] # "system"
        THEN "Productivity tool used inside a system-only plan"
        ELSE IF p.domain = "productivity" /\ tool_domains[step.tool] # "productivity"
        THEN "System tool used inside a productivity-only plan"
        ELSE ""

enforce_plan_domain(p) ==
    FirstError([i \in DOMAIN p.steps |->
        LET step == p.steps[i]
        IN  IF step.tool \notin DOMAIN tool_domains
            THEN "Unknown tool is not mapped to a domain"
            ELSE IF p.domain = "mixed"
            THEN ""
            ELSE IF p.domain = "system" /\ tool_domains[step.tool] # "system"
            THEN "Productivity tool used inside a system-only plan"
            ELSE IF p.domain = "productivity" /\ tool_domains[step.tool] # "productivity"
            THEN "System tool used inside a productivity-only plan"
            ELSE ""])

\* _enforce_plan_rules asking for the OpenAI opt-in only when data_outbound says so.
_enforce_plan_rules_outbound_flag_only(p, ctx) ==
    IF p.data_outbound.to_openai /\ ~ctx.privacy.allow_send_to_openai
    THEN "Outbound data to OpenAI not permitted by privacy settings"
    ELSE FirstError([i \in DOMAIN p.steps |->
            LET step == p.steps[i]
            IN  OrElse(_validate_step(step),
                OrElse(IF step.tool = "system" THEN _validate_system_action(step) ELSE "",
                       IF step.inputs.uses_screenshot /\ ~ctx.privacy.allow_screenshot
                       THEN "Screenshots are not permitted in current privacy context"
                       ELSE ""))])

_enforce_plan_rules(p, ctx) ==
    LET requires_openai_opt_in ==
            p.data_outbound.to_openai \/ \E i \in DOMAIN p.steps : p.steps[i].tool = "openai"
    IN  IF requires_openai_opt_in /\ ~ctx.privacy.allow_send_to_openai
        THEN "Outbound data to OpenAI not permitted by privacy settings"
        ELSE FirstError([i \in DOMAIN p.steps |->
                LET step == p.steps[i]
                IN  OrElse(_validate_step(step),
                    OrElse(IF step.tool = "system" THEN _validate_system_action(step) ELSE "",
                           IF step.inputs.uses_screenshot /\ ~ctx.privacy.allow_screenshot
                           THEN "Screenshots are not permitted in current privacy context"
                           ELSE ""))])

\* requires_confirmation_for without the gmail.send override.
requires_confirmation_for_risk_only(p) ==
    p.requires_confirmation \/ p.risk \in {"medium", "high"}

\* evaluate, lines 38-40: the confirmation requirement of an approved plan.
requires_confirmation_for(p) ==
    IF _requires_gmail_confirmation(p)
    THEN TRUE
    ELSE p.requires_confirmation \/ p.risk \in {"medium", "high"}

\* approved_steps_for leaving out the last step of a plan of several steps.
approved_steps_for_all_but_last(p) ==
    IF Len(p.steps) > 1
    THEN [i \in 1..(Len(p.steps) - 1) |-> p.steps[i].id]
    ELSE [i \in DOMAIN p.steps |-> p.steps[i].id]

\* evaluate, line 48: [step.id for step in plan.steps]
approved_steps_for(p) == [i \in DOMAIN p.steps |-> p.steps[i].id]

\* signature_for signing the plan's own requires_confirmation instead of the
\* approval's.
signature_for_plan_confirmation(p, approved_steps, constraints, requires_confirmation) ==
    compute_policy_signature(p, approved_steps, constraints, p.requires_confirmation,
                             signature_secret)

\* evaluate, lines 49-55: the signature of the approval.
signature_for(p, approved_steps, constraints, requires_confirmation) ==
    compute_policy_signature(p, approved_steps, constraints, requires_confirmation,
                             signature_secret)

\* PolicyEngine.evaluate: [error |-> the PolicyError raised ("" when none),
\*                         approval |-> the Approval returned (None when it raised)]
evaluate(p, ctx) ==
    LET error == OrElse(enforce_plan_domain(p), _enforce_plan_rules(p, ctx))
        requires_confirmation == requires_confirmation_for(p)
        constraints ==
            ApprovalConstraints(~ctx.privacy.allow_store_images,
                                p.data_outbound.redaction_required)
        approved_steps == approved_steps_for(p)
        signature == signature_for(p, approved_steps, constraints, requires_confirmation)
    IN  IF error # ""
        THEN [error |-> error, approval |-> None]
        ELSE [error |-> "",
              approval |-> Approval(TRUE, approved_steps, requires_confirmation,
                                    constraints, signature)]

(***************************************************************************)
(* victus/domains: the plugins.  validate_args is TRUE when it returns and *)
(* FALSE when it raises ExecutionError.                                    *)
(***************************************************************************)
allowed_apps == {"spotify", "notes", "browser"}

_net_details == {"summary", "interfaces"}

\* Strings of the model that contain "@".
ContainsAt(s) == s \in {"user@example.com", "redacted@example.com"}

SystemPlugin_validate_args(action, args) ==
    IF action = "open_app"
    THEN "app" \in DOMAIN args /\ args["app"] \in allowed_apps
    ELSE IF action = "net_snapshot"
    THEN (IF "detail" \in DOMAIN args THEN args["detail"] ELSE "summary") \in _net_details
    ELSE IF action = "status"
    THEN "focus" \notin DOMAIN args \/ args["focus"] \in {"cpu", "memory", "disk"}
    ELSE action \in {"net_connections", "exposure_snapshot", "bt_status",
                     "local_devices", "access_overview"}

\* SystemPlugin.execute, for the actions whose result does not depend on the host.
SystemPlugin_execute(action, args, a) ==
    IF a.policy_signature = <<>>
    THEN [error |-> "Missing policy signature", value |-> None]
    ELSE IF action = "open_app"
    THEN [error |-> "",
          value |-> [action |-> action,
                     opened |-> IF "app" \in DOMAIN args THEN args["app"] ELSE None]]
    ELSE IF action = "net_snapshot"
    THEN [error |-> "",
          value |-> [action |-> action,
                     detail |-> IF "detail" \in DOMAIN args THEN args["detail"] ELSE "summary"]]
    ELSE IF action \in {"status", "net_connections", "exposure_snapshot", "bt_status",
                        "local_devices", "access_overview"}
    THEN [error |-> "", value |-> [action |-> action]]
    ELSE [error |-> "Unknown system action requested", value |-> None]

GmailPlugin_validate_args(action, args) ==
    /\ action = "send"
    /\ "to" \in DOMAIN args /\ ContainsAt(args["to"])
    /\ "subject" \in DOMAIN args /\ "body" \in DOMAIN args

GmailPlugin_execute(action, args, a) ==
    IF a.policy_signature = <<>>
    THEN [error |-> "Missing policy signature", value |-> None]
    ELSE [error |-> "",
          value |-> [action |-> action,
                     sent |-> IF "to" \in DOMAIN args THEN args["to"] ELSE None,
                     subject |-> IF "subject" \in DOMAIN args THEN args["subject"] ELSE None]]

\* DummyPlugin(allowed_actions), as the tests register it.
DummyPlugin_allowed_actions == {"draft"}

DummyPlugin_validate_args(action, args) == action \in DummyPlugin_allowed_actions

DummyPlugin_execute(action, args, a) ==
    IF a.policy_signature = <<>>
    THEN [error |-> "Missing policy signature", value |-> None]
    ELSE [error |-> "", value |-> [action |-> action, args |-> args]]

validate_args(plugin, action, args) ==
    IF plugin = "SystemPlugin" THEN SystemPlugin_validate_args(action, args)
    ELSE IF plugin = "GmailPlugin" THEN GmailPlugin_validate_args(action, args)
    ELSE DummyPlugin_validate_args(action, args)

plugin_execute(plugin, action, args, a) ==
    IF plugin = "SystemPlugin" THEN SystemPlugin_execute(action, args, a)
    ELSE IF plugin = "GmailPlugin" THEN GmailPlugin_execute(action, args, a)
    ELSE DummyPlugin_execute(action, args, a)

\* BasePlugin.stream_execute: none of these plugins overrides it.
stream_execute(plugin, action, args, a) == plugin_execute(plugin, action, args, a)

(***************************************************************************)
(* victus/core/executor.py                                                 *)
(***************************************************************************)
Call(method, step) ==
    [method |-> method, tool |-> step.tool, action |-> step.action, args |-> step.args]

\* approval_error with `not approval.approved` left out of the first check.
approval_error_ignoring_approved(p, a) ==
    IF a = None
    THEN "Execution refused: approval is missing or not approved"
    ELSE IF a.policy_signature = <<>>
    THEN "Execution refused: missing policy signature"
    ELSE IF a.policy_signature #
            compute_policy_signature(p, a.approved_steps, a.constraints,
                                     a.requires_confirmation, signature_secret)
    THEN "Execution refused: approval signature invalid or tampered"
    ELSE ""

\* The checks both entry points make before the loop over the steps.
approval_error(p, a) ==
    IF a = None \/ ~a.approved
    THEN "Execution refused: approval is missing or not approved"
    ELSE IF a.policy_signature = <<>>
    THEN "Execution refused: missing policy signature"
    ELSE IF a.policy_signature #
            compute_policy_signature(p, a.approved_steps, a.constraints,
                                     a.requires_confirmation, signature_secret)
    THEN "Execution refused: approval signature invalid or tampered"
    ELSE ""

\* step_error without the check of the plan's origin.
step_error_without_origin(p, a, step) ==
    IF ~InSeq(step.id, a.approved_steps)
    THEN "Step is not approved for execution"
    ELSE IF p.domain = "productivity" /\ step.tool = "system"
    THEN "Productivity domain cannot execute system actions"
    ELSE IF p.domain = "system" /\ step.tool # "system"
    THEN "System domain cannot execute non-system actions"
    ELSE IF step.tool \notin DOMAIN plugins
    THEN "No plugin registered for tool"
    ELSE ""

\* step_error without the check of a system step in a productivity plan.
step_error_without_productivity_rule(p, a, step) ==
    IF ~InSeq(step.id, a.approved_steps)
    THEN "Step is not approved for execution"
    ELSE IF p.domain = "system" /\ p.origin # "router"
    THEN "System plans must originate from the deterministic router"
    ELSE IF p.domain = "system" /\ step.tool # "system"
    THEN "System domain cannot execute non-system actions"
    ELSE IF step.tool \notin DOMAIN plugins
    THEN "No plugin registered for tool"
    ELSE ""

\* The checks of one iteration that precede the plugin lookup.
step_error(p, a, step) ==
    IF ~InSeq(step.id, a.approved_steps)
    THEN "Step is not approved for execution"
    ELSE IF p.domain = "productivity" /\ step.tool = "system"
    THEN "Productivity domain cannot execute system actions"
    ELSE IF p.domain = "system" /\ p.origin # "router"
    THEN "System plans must originate from the deterministic router"
    ELSE IF p.domain = "system" /\ step.tool # "system"
    THEN "System domain cannot execute non-system actions"
    ELSE IF step.tool \notin DOMAIN plugins
    THEN "No plugin registered for tool"
    ELSE ""

\* The loop of execute calling the plugin's execute before its validate_args.
RECURSIVE execute_loop_executing_first(_, _, _, _)
execute_loop_executing_first(p, a, i, acc) ==
    IF i > Len(p.steps)
    THEN acc
    ELSE LET step == p.steps[i]
             err == step_error(p, a, step)
         IN  IF err # ""
             THEN [acc EXCEPT !.error = err]
             ELSE LET plugin == plugins[step.tool]
                      r == plugin_execute(plugin, step.action, step.args, a)
                      executed == Append(acc.calls, Call("execute", step))
                      validated == Append(executed, Call("validate_args", step))
                  IN  IF ~validate_args(plugin, step.action, step.args)
                      THEN [acc EXCEPT !.calls = validated,
                                       !.error = "plugin rejected the arguments"]
                      ELSE IF r.error # ""
                      THEN [acc EXCEPT !.calls = validated, !.error = r.error]
                      ELSE execute_loop_executing_first(p, a, i + 1,
                               [acc EXCEPT !.calls = validated,
                                           !.results = (step.id :> r.value) @@ @])

\* The loop of execute from step i on; acc = [results, calls, error] so far.
RECURSIVE execute_loop(_, _, _, _)
execute_loop(p, a, i, acc) ==
    IF i > Len(p.steps)
    THEN acc
    ELSE LET step == p.steps[i]
             err == step_error(p, a, step)
         IN  IF err # ""
             THEN [acc EXCEPT !.error = err]
             ELSE LET plugin == plugins[step.tool]
                      validated == Append(acc.calls, Call("validate_args", step))
                  IN  IF ~validate_args(plugin, step.action, step.args)
                      THEN [acc EXCEPT !.calls = validated,
                                       !.error = "plugin rejected the arguments"]
                      ELSE LET r == plugin_execute(plugin, step.action, step.args, a)
                               executed == Append(validated, Call("execute", step))
                           IN  IF r.error # ""
                               THEN [acc EXCEPT !.calls = executed, !.error = r.error]
                               ELSE execute_loop(p, a, i + 1,
                                        [acc EXCEPT !.calls = executed,
                                                    !.results = (step.id :> r.value) @@ @])

\* ExecutionEngine.execute: [results, calls, error]; results is what it returns
\* when error = "".
execute(p, a) ==
    LET start == [results |-> EmptyDict, calls |-> <<>>, error |-> ""]
        err == approval_error(p, a)
    IN  IF err # "" THEN [start EXCEPT !.error = err] ELSE execute_loop(p, a, 1, start)

\* The loop of execute_streaming from step i on.
RECURSIVE execute_streaming_loop(_, _, _, _, _, _)
execute_streaming_loop(p, a, stream_callbacks, stop_requests, i, acc) ==
    IF i > Len(p.steps)
    THEN acc
    ELSE LET step == p.steps[i]
             err == step_error(p, a, step)
         IN  IF err # ""
             THEN [acc EXCEPT !.error = err]
             ELSE LET plugin == plugins[step.tool]
                      validated == Append(acc.calls, Call("validate_args", step))
                      streamed == step.id \in stream_callbacks \/ step.id \in stop_requests
                  IN  IF ~validate_args(plugin, step.action, step.args)
                      THEN [acc EXCEPT !.calls = validated,
                                       !.error = "plugin rejected the arguments"]
                      ELSE LET r == IF streamed
                                    THEN stream_execute(plugin, step.action, step.args, a)
                                    ELSE plugin_execute(plugin, step.action, step.args, a)
                               executed ==
                                   Append(validated,
                                          Call(IF streamed THEN "stream_execute" ELSE "execute",
                                               step))
                           IN  IF r.error # ""
                               THEN [acc EXCEPT !.calls = executed, !.error = r.error]
                               ELSE execute_streaming_loop(p, a, stream_callbacks,
                                        stop_requests, i + 1,
                                        [acc EXCEPT !.calls = executed,
                                                    !.results = (step.id :> r.value) @@ @])

execute_streaming(p, a, stream_callbacks, stop_requests) ==
    LET start == [results |-> EmptyDict, calls |-> <<>>, error |-> ""]
        err == approval_error(p, a)
    IN  IF err # ""
        THEN [start EXCEPT !.error = err]
        ELSE execute_streaming_loop(p, a, stream_callbacks, stop_requests, 1, start)

(***************************************************************************)
(* victus/core/llm_health.py: the circuit breaker.  A breaker is the       *)
(* record of its attributes; a method is modelled by the breaker it        *)
(* leaves, computed from the breaker it finds and from the reading t of    *)
(* time.monotonic() it would take.  An exception is the record of its      *)
(* class name and its message.                                             *)
(***************************************************************************)
\* _opened_at = None; no reading of the monotonic clock is negative.
NoTime == -1

Max(a, b) == IF a >= b THEN a ELSE b

\* str(error).strip() with newlines replaced, or the class name when that is empty.
_sanitize_error(error) == IF error.message = "" THEN error.class ELSE error.message

\* _open_breaker keeping an opening time that is already recorded.
_open_breaker_keeping_opened_at(b, t) ==
    [b EXCEPT !._state = "OPEN",
              !._fail_count = Max(b._fail_count, b.failure_threshold),
              !._opened_at = IF @ = NoTime THEN t ELSE @]

_open_breaker(b, t) ==
    [b EXCEPT !._state = "OPEN",
              !._fail_count = Max(b._fail_count, b.failure_threshold),
              !._opened_at = t]

\* _last_error = None is the empty string: _sanitize_error never returns it.
LLMHealthCircuitBreaker(failure_threshold, cooldown_seconds) ==
    [failure_threshold |-> failure_threshold,
     cooldown_seconds |-> cooldown_seconds,
     request_timeout |-> 4,
     _state |-> "CLOSED",
     _fail_count |-> 0,
     _last_error |-> "",
     _opened_at |-> NoTime]

\* allow_request admitting the trial only strictly after the cooldown.
allow_request_after_cooldown_only(b, t) ==
    IF b._state = "OPEN"
    THEN IF b._opened_at = NoTime
         THEN [breaker |-> b, returned |-> FALSE]
         ELSE IF t > b._opened_at + b.cooldown_seconds
         THEN [breaker |-> [b EXCEPT !._state = "HALF_OPEN"], returned |-> TRUE]
         ELSE [breaker |-> b, returned |-> FALSE]
    ELSE [breaker |-> b, returned |-> TRUE]

\* allow_request: [breaker |-> the breaker afterwards, returned |-> its result]
allow_request(b, t) ==
    IF b._state = "OPEN"
    THEN IF b._opened_at = NoTime
         THEN [breaker |-> b, returned |-> FALSE]
         ELSE IF t >= b._opened_at + b.cooldown_seconds
         THEN [breaker |-> [b EXCEPT !._state = "HALF_OPEN"], returned |-> TRUE]
         ELSE [breaker |-> b, returned |-> FALSE]
    ELSE [breaker |-> b, returned |-> TRUE]

\* record_success leaving the failure count as it is.
record_success_keeping_fail_count(b) ==
    [b EXCEPT !._state = "CLOSED", !._last_error = "", !._opened_at = NoTime]

record_success(b) ==
    [b EXCEPT !._state = "CLOSED", !._fail_count = 0, !._last_error = "",
              !._opened_at = NoTime]

\* record_failure opening only above the threshold.
record_failure_above_threshold(b, error, t) ==
    LET noted == [b EXCEPT !._last_error = _sanitize_error(error)]
        counted == [noted EXCEPT !._fail_count = @ + 1]
    IN  IF noted._state = "HALF_OPEN"
        THEN _open_breaker(noted, t)
        ELSE IF counted._fail_count > counted.failure_threshold
        THEN _open_breaker(counted, t)
        ELSE counted

record_failure(b, error, t) ==
    LET noted == [b EXCEPT !._last_error = _sanitize_error(error)]
        counted == [noted EXCEPT !._fail_count = @ + 1]
    IN  IF noted._state = "HALF_OPEN"
        THEN _open_breaker(noted, t)
        ELSE IF counted._fail_count >= counted.failure_threshold
        THEN _open_breaker(counted, t)
        ELSE counted

(***************************************************************************)
(* victus/core/confidence.py.  A score is a number of thousandths (0.34 is *)
(* 340), in exact arithmetic.  An argument value that is not a Python      *)
(* string is written as one of the reserved strings NoneValue, IntValue.   *)
(* An Optional[str] the code only tests for truth is "" when it is None.   *)
(* A retrieval callback is the record of what a call of it does:           *)
(* [raises |-> whether it raises, result |-> the score it returns].        *)
(***************************************************************************)
NoneValue == "<None>"
IntValue == "<int>"

isinstance_str(value) == value \notin {NoneValue, IntValue}

\* str.strip on the strings of the model.
strip(s) ==
    IF s = "  " THEN ""
    ELSE IF s = " daft " THEN "daft"
    ELSE IF s = " OpenAI " THEN "OpenAI"
    ELSE s

\* dict.get(key): the value, or None.
get(args, key) == IF key \in DOMAIN args THEN args[key] ELSE NoneValue

RECURSIVE join(_, _)
join(sep, fields) ==
    IF fields = <<>> THEN ""
    ELSE IF Len(fields) = 1 THEN fields[1]
    ELSE fields[1] \o sep \o join(sep, Tail(fields))

Min(a, b) == IF a <= b THEN a ELSE b

_clamp(value) == Max(0, Min(1000, value))

IntentSpec(intent, required_fields, optional_fields, provider, query_field, artist_field) ==
    [intent |-> intent, required_fields |-> required_fields,
     optional_fields |-> optional_fields, provider |-> provider,
     query_field |-> query_field, artist_field |-> artist_field]

ParsedIntent(intent, provider, query, artist) ==
    [intent |-> intent, provider |-> provider, query |-> query, artist |-> artist]

_INTENT_SPECS ==
    (<<"spotify", "play">> :>
        IntentSpec("media.play", <<"track">>, <<"artist">>, "spotify", "track", "artist"))
    @@ (<<"local", "media_play">> :>
        IntentSpec("media.play", <<"query">>, <<"artist">>, "", "query", "artist"))
    @@ (<<"local", "media_stop">> :>
        IntentSpec("media.stop", <<>>, <<"provider">>, "", "", ""))
    @@ (<<"system", "status">> :>
        IntentSpec("system.status", <<>>, <<"focus">>, "", "", ""))
    @@ (<<"system", "net_snapshot">> :>
        IntentSpec("system.net_snapshot", <<>>, <<"detail">>, "", "", ""))
    @@ (<<"system", "net_connections">> :>
        IntentSpec("system.net_connections", <<>>, <<>>, "", "", ""))
    @@ (<<"system", "exposure_snapshot">> :>
        IntentSpec("system.exposure_snapshot", <<>>, <<>>, "", "", ""))
    @@ (<<"system", "bt_status">> :>
        IntentSpec("system.bt_status", <<>>, <<>>, "", "", ""))
    @@ (<<"system", "local_devices">> :>
        IntentSpec("system.local_devices", <<>>, <<>>, "", "", ""))
    @@ (<<"system", "access_overview">> :>
        IntentSpec("system.access_overview", <<>>, <<>>, "", "", ""))
    @@ (<<"system", "open_app">> :>
        IntentSpec("system.open_app", <<"app">>, <<"app">>, "", "", ""))
    @@ (<<"local", "open_app">> :>
        IntentSpec("local.open_app", <<"app">>, <<"app">>, "", "", ""))
    @@ (<<"local", "open_youtube">> :>
        IntentSpec("local.open_youtube", <<>>, <<>>, "", "", ""))
    @@ (<<"gmail", "send">> :>
        IntentSpec("communication.send_email", <<"to", "subject", "body">>, <<"subject">>,
                   "gmail", "", ""))
    @@ (<<"docs", "create">> :>
        IntentSpec("docs.create", <<"title", "content">>, <<"title">>, "docs", "", ""))
    @@ (<<"openai", "draft">> :>
        IntentSpec("assistant.generate_text", <<"prompt">>, <<>>, "openai", "prompt", ""))
    @@ (<<"openai", "generate_text">> :>
        IntentSpec("assistant.generate_text", <<"prompt">>, <<>>, "openai", "prompt", ""))
    @@ (<<"openai", "draft_email">> :>
        IntentSpec("assistant.draft_email", <<"to", "subject", "body">>, <<>>, "openai", "", ""))
    @@ (<<"openai", "summarize">> :>
        IntentSpec("assistant.summarize", <<"text">>, <<>>, "openai", "text", ""))
    @@ (<<"openai", "summarize_text">> :>
        IntentSpec("assistant.summarize", <<"text">>, <<>>, "openai", "text", ""))
    @@ (<<"openai", "outline">> :>
        IntentSpec("assistant.outline", <<"topic">>, <<>>, "openai", "topic", ""))

\* _INTENT_SPECS.get((tool, action))
intent_spec_for(tool, action) ==
    IF <<tool, action>> \in DOMAIN _INTENT_SPECS THEN _INTENT_SPECS[<<tool, action>>] ELSE None

_decision_for(final_conf) ==
    IF final_conf >= 800 THEN "execute"
    ELSE IF final_conf >= 550 THEN "soft_confirm"
    ELSE IF final_conf >= 350 THEN "clarify"
    ELSE "block"

\* _is_field_present taking every string, blank or not, as present.
_is_field_present_any_string(value) == value # NoneValue

_is_field_present(value) ==
    IF value = NoneValue THEN FALSE
    ELSE IF isinstance_str(value) THEN strip(value) # ""
    ELSE TRUE

_has_meaningful_input(args) == \E key \in DOMAIN args : _is_field_present(args[key])

_extract_text_field(args, field) ==
    IF field = "" THEN ""
    ELSE LET value == get(args, field)
         IN  IF isinstance_str(value) /\ strip(value) # "" THEN strip(value) ELSE ""

_build_parsed_intent(step, spec) ==
    IF spec = None
    THEN ParsedIntent("unknown", "", "", "")
    ELSE ParsedIntent(spec.intent,
                      IF spec.provider # "" THEN spec.provider ELSE step.tool,
                      _extract_text_field(step.args, spec.query_field),
                      _extract_text_field(step.args, spec.artist_field))

\* _check_required_fields: [missing |-> the list, present |-> the flag]
_check_required_fields(step, spec) ==
    IF spec = None THEN [missing |-> <<>>, present |-> FALSE]
    ELSE IF spec.required_fields = <<>> THEN [missing |-> <<>>, present |-> TRUE]
    ELSE LET missing ==
                 SelectSeq(spec.required_fields,
                           LAMBDA field : ~_is_field_present(get(step.args, field)))
         IN  [missing |-> missing, present |-> missing = <<>>]

\* _score_parse_conf: [score, reasons]
_score_parse_conf(spec, args, required_present, missing_fields) ==
    LET known == spec # None
        matched == IF known THEN 400 ELSE 0
        required == IF required_present THEN matched + 300 ELSE matched
        provided == IF known /\ required_present THEN required + 200 ELSE required
        optional == known /\ required_present /\ spec.optional_fields # <<>>
        clarity ==
            optional /\ \E i \in DOMAIN spec.optional_fields :
                            _is_field_present(get(args, spec.optional_fields[i]))
        score == IF clarity THEN provided + 100 ELSE provided
        reasons ==
            (IF known THEN <<"intent matched " \o spec.intent>>
             ELSE <<"unknown intent grammar">>)
            \o (IF required_present THEN <<"required fields present">>
                ELSE <<"missing required fields: " \o join(", ", missing_fields),
                       "missing required fields; clarification required">>)
            \o (IF known /\ required_present THEN <<"provider specified or defaulted">>
                ELSE IF known THEN <<"provider deferred until required fields present">>
                ELSE <<"provider missing">>)
            \o (IF ~optional THEN <<>>
                ELSE IF clarity THEN <<"optional clarity present">>
                ELSE <<"optional clarity missing">>)
    IN  [score |-> _clamp(IF ~required_present THEN Min(score, 340) ELSE score),
         reasons |-> reasons]

\* _score_retrieval_conf keeping the parse score when the callback raises.
_score_retrieval_conf_failing_open(parse_conf, parsed_intent, spec, required_present, missing_fields, retrieval_providers) ==
    IF (~required_present /\ missing_fields # <<>>) \/ parse_conf < 400 \/ spec = None
    THEN [score |-> parse_conf, provider_calls |-> 0, reasons |-> <<"retrieval skipped">>]
    ELSE IF spec.intent \notin DOMAIN retrieval_providers
    THEN [score |-> parse_conf, provider_calls |-> 0,
          reasons |-> <<"retrieval skipped (not configured)">>]
    ELSE LET provider == retrieval_providers[spec.intent]
         IN  IF provider.raises
             THEN [score |-> parse_conf, provider_calls |-> 1,
                   reasons |-> <<"retrieval failed: " \o provider.message>>]
             ELSE [score |-> _clamp(provider.result), provider_calls |-> 1,
                   reasons |-> <<"retrieval completed">>]

\* _score_retrieval_conf: [score, reasons, provider_calls]; provider_calls is the
\* number of times it called the retrieval callback.
_score_retrieval_conf(parse_conf, parsed_intent, spec, required_present, missing_fields, retrieval_providers) ==
    IF ~required_present /\ missing_fields # <<>>
    THEN [score |-> parse_conf, provider_calls |-> 0,
          reasons |-> <<"missing required fields; retrieval skipped">>]
    ELSE IF parse_conf < 400
    THEN [score |-> parse_conf, provider_calls |-> 0,
          reasons |-> <<"parse confidence below retrieval threshold">>]
    ELSE IF spec = None
    THEN [score |-> parse_conf, provider_calls |-> 0,
          reasons |-> <<"retrieval skipped for unknown intent">>]
    ELSE IF spec.intent \notin DOMAIN retrieval_providers
    THEN [score |-> parse_conf, provider_calls |-> 0,
          reasons |-> <<"retrieval skipped (not configured)">>]
    ELSE LET provider == retrieval_providers[spec.intent]
         IN  IF provider.raises
             THEN [score |-> 0, provider_calls |-> 1,
                   reasons |-> <<"retrieval failed: " \o provider.message>>]
             ELSE [score |-> _clamp(provider.result), provider_calls |-> 1,
                   reasons |-> <<"retrieval completed">>]

\* final_conf with the retrieval score counted against the parse score.
final_conf_less_retrieval(parse_conf, retrieval_conf) ==
    _clamp((6 * parse_conf - 4 * retrieval_conf) \div 10)

\* final_conf = _clamp(0.6 * parse_conf + 0.4 * retrieval_conf)
final_conf(parse_conf, retrieval_conf) ==
    _clamp((6 * parse_conf + 4 * retrieval_conf) \div 10)

\* ConfidenceEngine.evaluate_step: the ConfidenceEvaluation, with the number of
\* calls of the retrieval callback it made.
evaluate_step(step, retrieval_providers) ==
    LET spec == intent_spec_for(step.tool, step.action)
        parsed_intent == _build_parsed_intent(step, spec)
        checked == _check_required_fields(step, spec)
        parse == _score_parse_conf(spec, step.args, checked.present, checked.missing)
        retrieval ==
            _score_retrieval_conf(parse.score, parsed_intent, spec, checked.present,
                                  checked.missing, retrieval_providers)
        final == final_conf(parse.score, retrieval.score)
        decision ==
            IF spec # None /\ checked.missing # <<>> /\ ~checked.present
            THEN (IF _has_meaningful_input(step.args) THEN "clarify" ELSE "block")
            ELSE _decision_for(final)
    IN  [intent |-> parsed_intent.intent,
         parse |-> parse.score,
         retrieval |-> retrieval.score,
         final |-> final,
         decision |-> decision,
         reasons |-> parse.reasons \o retrieval.reasons,
         tool |-> step.tool,
         action |-> step.action,
         missing_fields |-> checked.missing,
         provider_calls |-> retrieval.provider_calls]

\* evaluate_plan taking the first of the evaluations with the greatest final score.
evaluate_plan_taking_highest(p, retrieval_providers) ==
    LET evaluations == [i \in DOMAIN p.steps |-> evaluate_step(p.steps[i], retrieval_providers)]
        best == CHOOSE i \in DOMAIN evaluations :
                    /\ \A j \in DOMAIN evaluations : evaluations[i].final >= evaluations[j].final
                    /\ \A j \in 1..(i - 1) : evaluations[j].final < evaluations[i].final
    IN  [decision |-> evaluations[best].decision,
         final |-> evaluations[best].final,
         evaluations |-> evaluations,
         primary |-> evaluations[best]]

\* evaluate_plan taking the last of the evaluations with the least final score.
evaluate_plan_taking_last_lowest(p, retrieval_providers) ==
    LET evaluations == [i \in DOMAIN p.steps |-> evaluate_step(p.steps[i], retrieval_providers)]
        last == CHOOSE i \in DOMAIN evaluations :
                    /\ \A j \in DOMAIN evaluations : evaluations[i].final <= evaluations[j].final
                    /\ \A j \in (i + 1)..Len(evaluations) :
                          evaluations[j].final > evaluations[i].final
    IN  [decision |-> evaluations[last].decision,
         final |-> evaluations[last].final,
         evaluations |-> evaluations,
         primary |-> evaluations[last]]

\* ConfidenceEngine.evaluate_plan: min(evaluations, key=final) is the first of
\* the evaluations with the least final score.
evaluate_plan(p, retrieval_providers) ==
    LET evaluations == [i \in DOMAIN p.steps |-> evaluate_step(p.steps[i], retrieval_providers)]
        first == CHOOSE i \in DOMAIN evaluations :
                    /\ \A j \in DOMAIN evaluations : evaluations[i].final <= evaluations[j].final
                    /\ \A j \in 1..(i - 1) : evaluations[j].final > evaluations[i].final
    IN  [decision |-> evaluations[first].decision,
         final |-> evaluations[first].final,
         evaluations |-> evaluations,
         primary |-> evaluations[first]]

(***************************************************************************)
(* victus/config/runtime.py and victus/core/sanitization.py.  env is the   *)
(* value of the environment variable LLM_PROVIDER, NoneValue when unset.   *)
(***************************************************************************)
\* str.lower on the strings of the model.
lower(s) == IF s = "OpenAI" THEN "openai" ELSE s

get_llm_provider(env) == lower(strip(IF env = NoneValue THEN "ollama" ELSE env))

\* is_outbound_llm_provider(provider): `provider or get_llm_provider()`
is_outbound_llm_provider(provider, env) ==
    lower(IF provider # "" THEN provider ELSE get_llm_provider(env))
        \in {"openai", "gemini", "groq"}

\* _mark_openai_outbound marking every plan that has an openai step.
_mark_openai_outbound_any_provider(p, provider, env) ==
    LET to_openai == \E i \in DOMAIN p.steps : p.steps[i].tool = "openai"
    IN  [p EXCEPT !.data_outbound.to_openai = to_openai]

_mark_openai_outbound(p, provider, env) ==
    LET is_outbound == is_outbound_llm_provider(provider, env)
        to_openai == is_outbound /\ \E i \in DOMAIN p.steps : p.steps[i].tool = "openai"
        redaction_required == is_outbound /\ p.data_outbound.redaction_required
    IN  [p EXCEPT !.data_outbound.to_openai = to_openai,
                  !.data_outbound.redaction_required = redaction_required]

\* _redact_value leaving the recipient as it is.
_redact_value_keeping_recipient(key, value) ==
    IF ~isinstance_str(value) THEN value
    ELSE IF key = "to" THEN value
    ELSE "[REDACTED]"

\* _redact_value leaving the subject as it is.
_redact_value_keeping_subject(key, value) ==
    IF ~isinstance_str(value) THEN value
    ELSE IF key = "subject" THEN value
    ELSE IF key = "to" THEN "redacted@example.com"
    ELSE "[REDACTED]"

\* _redact_value replacing the placeholder of a recipient as well.
_redact_value_redacting_placeholder(key, value) ==
    IF ~isinstance_str(value) THEN value
    ELSE IF key = "to" /\ value # "redacted@example.com" THEN "redacted@example.com"
    ELSE "[REDACTED]"

_redact_value(key, value) ==
    IF ~isinstance_str(value) THEN value
    ELSE IF key = "to" THEN "redacted@example.com"
    ELSE "[REDACTED]"

_redact_openai_steps(p) ==
    IF ~p.data_outbound.redaction_required
    THEN p
    ELSE [p EXCEPT !.steps =
            [i \in DOMAIN p.steps |->
                IF p.steps[i].tool # "openai"
                THEN p.steps[i]
                ELSE [p.steps[i] EXCEPT !.args =
                         [key \in DOMAIN p.steps[i].args |->
                             _redact_value(key, p.steps[i].args[key])]]]]

sanitize_plan(p, env) ==
    LET provider == get_llm_provider(env)
        outbound_marked == _mark_openai_outbound(p, provider, env)
    IN  _redact_openai_steps(outbound_marked)

\* request_approval submitting the plan it was given and returning the prepared one.
request_approval_reviewing_raw_plan(p, ctx, env) ==
    LET prepared_plan == sanitize_plan(p, env)
        r == evaluate(p, ctx)
    IN  [plan |-> prepared_plan, approval |-> r.approval, error |-> r.error]

\* VictusApp.request_approval: [plan |-> the prepared plan, approval |-> the
\* Approval returned (None when evaluate raised), error |-> the PolicyError]
request_approval(p, ctx, env) ==
    LET prepared_plan == sanitize_plan(p, env)
        r == evaluate(prepared_plan, ctx)
    IN  [plan |-> prepared_plan, approval |-> r.approval, error |-> r.error]

(***************************************************************************)
(* victus/domains/productivity/plugins/openai_client.py.  A call of the    *)
(* backend client is the record outcome of what it does: raises, and the   *)
(* exception's class and message.  A plugin method gives [error, value,    *)
(* breaker, events]: the exception it raises ("" when none; the class of a  *)
(* client's exception, the message of an ExecutionError), its result,      *)
(* the process's breaker afterwards, and the calls it made, in order.      *)
(***************************************************************************)
LIMITED_MODE_MESSAGE ==
    "LLM is unavailable (limited mode). Try a direct command (e.g., 'open calculator')."

Event(op, arg) == [op |-> op, arg |-> arg]

\* get_llm_circuit_breaker: the process's breaker, built on first use.
get_llm_circuit_breaker(b) == IF b = None THEN LLMHealthCircuitBreaker(2, 30) ELSE b

\* What the injected client returns: the OpenAIClientStub's results.
client_result(action, args) ==
    IF action \in {"draft", "generate_text"}
    THEN [action |-> "generate_text",
          content |-> "draft: " \o (IF "prompt" \in DOMAIN args THEN args["prompt"] ELSE "")]
    ELSE IF action = "draft_email"
    THEN [action |-> "draft_email",
          to |-> IF "to" \in DOMAIN args THEN args["to"] ELSE "",
          subject |-> IF "subject" \in DOMAIN args THEN args["subject"] ELSE "",
          body |-> IF "body" \in DOMAIN args THEN args["body"] ELSE ""]
    ELSE IF action \in {"summarize", "summarize_text"}
    THEN [action |-> "summarize",
          summary |-> IF "text" \in DOMAIN args THEN args["text"] ELSE ""]
    ELSE [action |-> "outline",
          outline |-> IF "topic" \in DOMAIN args /\ args["topic"] # ""
                      THEN <<args["topic"]>> ELSE <<>>]

\* An argument that is a string with something other than blanks in it.
Text(args, key) == isinstance_str(get(args, key)) /\ strip(get(args, key)) # ""

OpenAIClientPlugin_validate_args(action, args) ==
    IF action \in {"draft", "generate_text"} THEN Text(args, "prompt")
    ELSE IF action = "draft_email"
    THEN /\ Text(args, "subject")
         /\ Text(args, "body")
         /\ "to" \in DOMAIN args => (isinstance_str(args["to"]) /\ ContainsAt(args["to"]))
    ELSE IF action \in {"summarize", "summarize_text"} THEN Text(args, "text")
    ELSE IF action = "outline" THEN Text(args, "topic")
    ELSE FALSE

\* _call_with_breaker: the client call and the one breaker update that
\* follows it.
_call_with_breaker(action, args, b, t, outcome) ==
    IF outcome.raises
    THEN [error |-> outcome.class, value |-> None,
          breaker |-> record_failure(b, outcome, t),
          events |-> <<Event("client", "raised"), Event("record_failure", "")>>]
    ELSE [error |-> "", value |-> client_result(action, args),
          breaker |-> record_success(b),
          events |-> <<Event("client", "returned"), Event("record_success", "")>>]

\* The try of stream_execute for draft / generate_text, with a client that has
\* no stream_generate_text (OpenAIClientStub): the client call, the chunks of
\* the content handed to on_chunk when a callback is registered, and the one
\* breaker update.  outcome.chunk_error is the class of the exception raised
\* while the chunks are handed over, "" when none is.
_stream_with_breaker(args, b, t, outcome, on_chunk) ==
    IF outcome.raises
    THEN [error |-> outcome.class, value |-> None,
          breaker |-> record_failure(b, outcome, t),
          events |-> <<Event("client", "raised"), Event("record_failure", "")>>]
    ELSE IF on_chunk /\ outcome.chunk_error # ""
    THEN [error |-> outcome.chunk_error, value |-> None,
          breaker |-> record_failure(b, [class |-> outcome.chunk_error, message |-> ""], t),
          events |-> <<Event("client", "returned"), Event("on_chunk", "raised"),
                       Event("record_failure", "")>>]
    ELSE [error |-> "", value |-> client_result("generate_text", args),
          breaker |-> record_success(b),
          events |-> <<Event("client", "returned")>>
                     \o (IF on_chunk THEN <<Event("on_chunk", "returned")>> ELSE <<>>)
                     \o <<Event("record_success", "")>>]

\* OpenAIClientPlugin.execute calling the client whatever allow_request returns.
OpenAIClientPlugin_execute_ungated(action, args, a, b, t, outcome) ==
    IF a.policy_signature = <<>>
    THEN [error |-> "Missing policy signature", value |-> None, breaker |-> b, events |-> <<>>]
    ELSE LET gate == allow_request(get_llm_circuit_breaker(b), t)
             asked == <<Event("allow_request", IF gate.returned THEN "true" ELSE "false")>>
             called == _call_with_breaker(action, args, gate.breaker, t, outcome)
         IN  [called EXCEPT !.events = asked \o @]

OpenAIClientPlugin_execute(action, args, a, b, t, outcome) ==
    IF a.policy_signature = <<>>
    THEN [error |-> "Missing policy signature", value |-> None, breaker |-> b, events |-> <<>>]
    ELSE LET gate == allow_request(get_llm_circuit_breaker(b), t)
             asked == <<Event("allow_request", IF gate.returned THEN "true" ELSE "false")>>
         IN  IF ~gate.returned
             THEN [error |-> "", value |-> [assistant_message |-> LIMITED_MODE_MESSAGE],
                   breaker |-> gate.breaker, events |-> asked]
             ELSE IF action \in {"draft", "generate_text", "draft_email", "summarize",
                                 "summarize_text", "outline"}
             THEN LET called == _call_with_breaker(action, args, gate.breaker, t, outcome)
                  IN  [called EXCEPT !.events = asked \o @]
             ELSE [error |-> "Unknown openai action", value |-> None,
                   breaker |-> gate.breaker, events |-> asked]

\* on_chunk: a chunk callback is passed.
OpenAIClientPlugin_stream_execute(action, args, a, b, t, outcome, on_chunk) ==
    IF a.policy_signature = <<>>
    THEN [error |-> "Missing policy signature", value |-> None, breaker |-> b, events |-> <<>>]
    ELSE LET gate == allow_request(get_llm_circuit_breaker(b), t)
             asked == <<Event("allow_request", IF gate.returned THEN "true" ELSE "false")>>
         IN  IF ~gate.returned
             THEN [error |-> "", value |-> [assistant_message |-> LIMITED_MODE_MESSAGE],
                   breaker |-> gate.breaker, events |-> asked]
             ELSE IF action \in {"draft", "generate_text"}
             THEN LET called == _stream_with_breaker(args, gate.breaker, t, outcome, on_chunk)
                  IN  [called EXCEPT !.events = asked \o @]
             ELSE LET again == OpenAIClientPlugin_execute(action, args, a, gate.breaker, t, outcome)
                  IN  [again EXCEPT !.events = asked \o @]

(***************************************************************************)
(* victus/core/executor.py with the plugins of VictusApp: the loops of     *)
(* execute and execute_streaming, carrying the process's circuit breaker   *)
(* from one plugin call to the next.  outcomes[i] is what a call of the    *)
(* backend client made for step i does.                                    *)
(***************************************************************************)
\* plugin.validate_args(step.action, step.args) of the loop.
accepts(plugin, step) ==
    IF plugin = "OpenAIClientPlugin"
    THEN OpenAIClientPlugin_validate_args(step.action, step.args)
    ELSE validate_args(plugin, step.action, step.args)

\* One plugin call of the loop: [error, value, breaker, events].
invoke(plugin, step, a, streamed, on_chunk, b, t, outcome) ==
    IF plugin = "OpenAIClientPlugin"
    THEN IF streamed
         THEN OpenAIClientPlugin_stream_execute(step.action, step.args, a, b, t, outcome,
                                                on_chunk)
         ELSE OpenAIClientPlugin_execute(step.action, step.args, a, b, t, outcome)
    ELSE LET r == IF streamed
                  THEN stream_execute(plugin, step.action, step.args, a)
                  ELSE plugin_execute(plugin, step.action, step.args, a)
         IN  [error |-> r.error, value |-> r.value, breaker |-> b, events |-> <<>>]

\* The bookkeeping after a plugin call that did r.
after_call(acc, step, method, r) ==
    [acc EXCEPT !.calls = Append(@, Call(method, step)),
                !.trace = Append(@, Event(method, step.id)) \o r.events,
                !.breaker = r.breaker,
                !.error = r.error,
                !.results = IF r.error = "" THEN (step.id :> r.value) @@ @ ELSE @]

\* The loop from step i on, until a step raises; streaming tells
\* execute_streaming from execute; acc = [results, calls, error, breaker, trace].
RECURSIVE run_steps(_, _, _, _, _, _, _, _, _)
run_steps(p, a, streaming, stream_callbacks, stop_requests, t, outcomes, i, acc) ==
    IF acc.error # "" \/ i > Len(p.steps)
    THEN acc
    ELSE LET step == p.steps[i]
             err == step_error(p, a, step)
             plugin == plugins[step.tool]
             streamed ==
                 streaming /\ (step.id \in stream_callbacks \/ step.id \in stop_requests)
             method == IF streamed THEN "stream_execute" ELSE "execute"
             validated ==
                 [acc EXCEPT !.calls = Append(@, Call("validate_args", step)),
                             !.trace = Append(@, Event("validate_args", step.id))]
         IN  IF err # ""
             THEN [acc EXCEPT !.error = err]
             ELSE IF ~accepts(plugin, step)
             THEN [validated EXCEPT !.error = "plugin rejected the arguments"]
             ELSE run_steps(p, a, streaming, stream_callbacks, stop_requests, t, outcomes,
                            i + 1,
                            after_call(validated, step, method,
                                       invoke(plugin, step, a, streamed,
                                              step.id \in stream_callbacks, acc.breaker,
                                              t, outcomes[i])))

\* ExecutionEngine.execute / execute_streaming on the breaker b at time t.
run_plan(p, a, streaming, stream_callbacks, stop_requests, b, t, outcomes) ==
    LET start == [results |-> EmptyDict, calls |-> <<>>, error |-> "", breaker |-> b,
                  trace |-> <<>>]
        err == approval_error(p, a)
    IN  IF err # ""
        THEN [start EXCEPT !.error = err]
        ELSE run_steps(p, a, streaming, stream_callbacks, stop_requests, t, outcomes, 1, start)

(***************************************************************************)
(* victus/core/intent_router.py, victus/core/router.py and the messages of *)
(* victus/core/confidence.py.                                              *)
(***************************************************************************)
\* route_intent on the inputs of the model: the RoutedAction, or None for an
\* input that holds no monitoring phrase or that the SafetyFilter suspects.
route_intent(user_input) ==
    IF user_input = "cpu usage" THEN [action |-> "status", args |-> [focus |-> "cpu"]]
    ELSE IF user_input = "network status" THEN [action |-> "net_snapshot", args |-> EmptyDict]
    ELSE IF user_input = "open connections"
    THEN [action |-> "access_overview", args |-> EmptyDict]
    ELSE None

_map_intent_to_plan(user_input) ==
    LET routed == route_intent(user_input)
    IN  IF routed = None
        THEN None
        ELSE Plan(user_input, "system",
                  <<PlanStep("step-1", "system", routed.action, routed.args, FALSE)>>,
                  FALSE, DataOutbound(FALSE), "low", "router")

\* Router.route: raises ValueError on an empty input.
route(user_input) ==
    IF user_input = ""
    THEN [raises |-> TRUE, plan |-> None]
    ELSE [raises |-> FALSE, plan |-> _map_intent_to_plan(user_input)]

_FIELD_QUESTIONS ==
    [track |-> "What track should I play?",
     query |-> "What track should I play?",
     artist |-> "Which artist should I use?",
     to |-> "Who should I email?",
     subject |-> "What is the email subject?",
     body |-> "What should the email say?",
     title |-> "What should the document be titled?",
     content |-> "What content should the document include?",
     prompt |-> "What should I draft?",
     text |-> "What text should I summarize?",
     topic |-> "What topic should I outline?",
     app |-> "Which app should I open?",
     detail |-> "Which network detail should I return?",
     focus |-> "Which system focus should I check (cpu, memory, disk)?"]

build_clarification(e) ==
    IF e.missing_fields # <<>>
    THEN LET field == e.missing_fields[1]
         IN  IF field \in DOMAIN _FIELD_QUESTIONS
             THEN _FIELD_QUESTIONS[field]
             ELSE "Please provide '" \o field \o "' to proceed."
    ELSE "Can you clarify what you want Victus to do?"

build_block_message(e) ==
    IF e.missing_fields # <<>>
    THEN "Cannot execute safely yet. Missing: " \o join(", ", e.missing_fields)
             \o ". Please rephrase with the details."
    ELSE "Cannot execute safely with the current input. Please rephrase with more detail."

(***************************************************************************)
(* victus/app.py: run_request_sync and run_request_streaming, which differ *)
(* in the executor entry point only.  A run gives the record of what the   *)
(* caller and the process see afterwards: the response returned (None when *)
(* the call raised), the PolicyError raised ("" when none), the plan as    *)
(* built and as prepared, the approval, the executor's results, error and  *)
(* plugin calls, the breaker, the calls made in order, and the records     *)
(* appended to the audit log.  run_request takes what each call of the     *)
(* pipeline does (None for a call whose arguments do not exist) and        *)
(* follows the handler through them.                                       *)
(***************************************************************************)
\* _log_failure: the FailureEvent of an exception of class exception_type is
\* handed to the failure logger, whose append returns.
_log_failure(exception_type) == Event("_log_failure", exception_type)

exception_type(error) ==
    IF error \in {"TimeoutError", "RuntimeError"} THEN error ELSE "ExecutionError"

_plan_requires_llm(p) == \E i \in DOMAIN p.steps : p.steps[i].tool = "openai"

_limited_mode_message ==
    "LLM is unavailable (limited mode). Try a direct command (e.g., 'open calculator')."

llm_unavailable == [error |-> "llm_unavailable", message |-> _limited_mode_message]

request_failed ==
    [error |-> "request_failed", message |-> "The request could not be completed safely."]

\* The pipeline stopping at a clarify decision only.
confidence_refusal_on_clarify_only(confidence) ==
    IF confidence.decision = "clarify"
    THEN [error |-> "clarify", message |-> build_clarification(confidence.primary)]
    ELSE None

\* The response the pipeline stops with after the confidence gate, or None
\* when it goes on to the policy review.
confidence_refusal(confidence) ==
    IF confidence.decision = "clarify"
    THEN [error |-> "clarify", message |-> build_clarification(confidence.primary)]
    ELSE IF confidence.decision = "block"
    THEN [error |-> "blocked", message |-> build_block_message(confidence.primary)]
    ELSE None

\* log_request storing the plan it was given.
log_request_storing_given_plan(user_input, p, a, res, env) ==
    [user_input |-> user_input, plan |-> p, approval |-> a, results |-> res, errors |-> None]

\* AuditLogger.log_request(user_input, plan, approval, results, errors=None)
log_request(user_input, p, a, res, env) ==
    [user_input |-> user_input, plan |-> sanitize_plan(p, env), approval |-> a,
     results |-> res, errors |-> None]

Answer(value) == IF value THEN "true" ELSE "false"

\* routed: router.route(user_input); gate1, gate2: allow_request when the
\* handler asks for want of a routed plan and for an openai step; built: the
\* routed plan or build_plan's (None when Plan raises ValueError);
\* confidence: confidence_engine.evaluate_plan(plan); logged: the class of the
\* exception confidence_logger.append raises on the first evaluation, "" when
\* every append returns; reviewed: request_approval(plan, context); ran:
\* execute_plan or execute_plan_streaming.
run_request(user_input, env, b, routed, gate1, built, gate2, confidence, logged, reviewed, ran) ==
    LET idle == [response |-> None, raised |-> "", raw |-> None, plan |-> None,
                 approval |-> None, results |-> EmptyDict, execError |-> "",
                 calls |-> <<>>, breaker |-> b, trace |-> <<>>, audit |-> <<>>]
        unrouted == routed.plan = None
        t1 == IF unrouted
              THEN <<Event("route", "none"), Event("allow_request", Answer(gate1.returned))>>
              ELSE <<Event("route", "plan")>>
        needs == _plan_requires_llm(built)
        t2 == IF needs THEN Append(t1, Event("allow_request", Answer(gate2.returned)))
              ELSE t1
        evaluated == Append(t2, Event("evaluate_plan", confidence.decision))
        t3 == evaluated \o [i \in DOMAIN confidence.evaluations |-> Event("append", "returned")]
        t4 == Append(t3, Event("evaluate",
                               IF reviewed.error = "" THEN "approved" ELSE "raised"))
        t5 == t4 \o ran.trace
    IN  IF routed.raises
        THEN [idle EXCEPT !.response = request_failed,
                          !.trace = <<Event("route", "raised"), _log_failure("ValueError")>>]
        ELSE IF unrouted /\ ~gate1.returned
        THEN [idle EXCEPT !.response = llm_unavailable, !.breaker = gate1.breaker,
                          !.trace = t1]
        ELSE IF built = None
        THEN [idle EXCEPT !.response = request_failed, !.breaker = gate1.breaker,
                          !.trace = Append(t1, _log_failure("ValueError"))]
        ELSE IF needs /\ ~gate2.returned
        THEN [idle EXCEPT !.response = llm_unavailable, !.raw = built,
                          !.breaker = gate2.breaker, !.trace = t2]
        ELSE IF logged # ""
        THEN [idle EXCEPT !.response = request_failed, !.raw = built,
                          !.breaker = gate2.breaker,
                          !.trace = evaluated \o <<Event("append", "raised"),
                                                   _log_failure(logged)>>]
        ELSE IF confidence_refusal(confidence) # None
        THEN [idle EXCEPT !.response = confidence_refusal(confidence), !.raw = built,
                          !.breaker = gate2.breaker, !.trace = t3]
        ELSE IF reviewed.error # ""
        THEN [idle EXCEPT !.raised = reviewed.error, !.raw = built,
                          !.plan = reviewed.plan, !.breaker = gate2.breaker,
                          !.trace = Append(t4, _log_failure("PolicyError"))]
        ELSE IF ran.error # ""
        THEN [idle EXCEPT !.response = request_failed, !.raw = built,
                          !.plan = reviewed.plan, !.approval = reviewed.approval,
                          !.results = ran.results, !.execError = ran.error,
                          !.calls = ran.calls, !.breaker = ran.breaker,
                          !.trace = Append(t5, _log_failure(exception_type(ran.error)))]
        ELSE [idle EXCEPT !.response = ran.results, !.raw = built,
                          !.plan = reviewed.plan, !.approval = reviewed.approval,
                          !.results = ran.results, !.calls = ran.calls,
                          !.breaker = ran.breaker,
                          !.trace = Append(t5, Event("log_request", "")),
                          !.audit = <<log_request(user_input, reviewed.plan,
                                                  reviewed.approval, ran.results, env)>>]

(***************************************************************************)
(* Inputs of the model: the engines' configurations, the plans a caller    *)
(* builds, the contexts, and what a caller presents to the executor.       *)
(***************************************************************************)
StepIdNames == <<"step-1", "step-2", "step-3", "step-4">>

CustomAllowlist ==
    [system |-> {"open_app", "raw_shell"}, gmail |-> {"send"}, openai |-> {"draft"}]

CustomDenylist == {"raw_shell", "gmail.send"}

SystemOnlyPlugins == [system |-> "SystemPlugin"]

AllPlugins == [system |-> "SystemPlugin", gmail |-> "GmailPlugin", openai |-> "DummyPlugin"]

\* <<allowlist argument, denylist argument, plugin registry>>
EngineConfigs ==
    { <<None, {}, SystemOnlyPlugins>>,
      <<None, {}, AllPlugins>>,
      <<CustomAllowlist, CustomDenylist, AllPlugins>> }

MailArgs == [to |-> "user@example.com", subject |-> "hello", body |-> "secret"]

\* <<tool, action, args, uses_screenshot>>
StepKinds ==
    { <<"system", "open_app", [app |-> "spotify"], FALSE>>,
      <<"system", "open_app", [app |-> "spotify"], TRUE>>,
      <<"system", "open_app", [app |-> "terminal"], FALSE>>,
      <<"system", "raw_shell", EmptyDict, FALSE>>,
      <<"gmail", "send", MailArgs, FALSE>>,
      <<"openai", "draft", [prompt |-> "secret"], FALSE>>,
      <<"unknown", "do", EmptyDict, FALSE>> }

StepLists ==
    UNION { { [i \in 1..n |-> PlanStep(StepIdNames[i], k[i][1], k[i][2], k[i][3], k[i][4])]
              : k \in [1..n -> StepKinds] }
            : n \in 1..MaxSteps }

Domains == {"system", "productivity", "mixed"}
Risks == {"low", "medium", "high"}
OriginArgs == {"<default>", "planner", "router"}

\* Every privacy setting, for the review of a plan.
Contexts ==
    { [user_confirmed |-> FALSE, privacy |-> PrivacySettings(s, o, i)] :
        s \in BOOLEAN, o \in BOOLEAN, i \in BOOLEAN }

\* The default privacy settings and the most permissive ones, for a whole request.
RequestContexts ==
    { [user_confirmed |-> FALSE, privacy |-> PrivacySettings(FALSE, FALSE, FALSE)],
      [user_confirmed |-> FALSE, privacy |-> PrivacySettings(TRUE, TRUE, TRUE)] }

\* A context of a user who confirmed the request; user_confirmed is False by
\* default.
ConfirmedContexts ==
    { [user_confirmed |-> TRUE, privacy |-> PrivacySettings(FALSE, FALSE, FALSE)] }

Tools == {"system", "gmail", "openai", "unknown"}
Actions == {"open_app", "raw_shell", "send", "draft"}
ArgValues == {[app |-> "spotify"], [app |-> "notes"], MailArgs}

\* The plans that differ from p in one field.
PlanVariants(p) ==
    LET n == Len(p.steps)
        header ==
            { [p EXCEPT !.goal = "play music differently"] }
            \cup { [p EXCEPT !.domain = d] : d \in Domains \ {p.domain} }
            \cup { [p EXCEPT !.risk = r] : r \in Risks \ {p.risk} }
            \cup { [p EXCEPT !.requires_confirmation = ~@],
                   [p EXCEPT !.data_outbound.to_openai = ~@],
                   [p EXCEPT !.data_outbound.redaction_required = ~@],
                   [p EXCEPT !.data_outbound.content_types = Append(@, "image")],
                   [p EXCEPT !.notes = "edited"],
                   [p EXCEPT !.origin = IF @ = "router" THEN "planner" ELSE "router"] }
        perStep(i) ==
            { [p EXCEPT !.steps[i].id = x] : x \in {"step-1", "step-2"} \ {p.steps[i].id} }
            \cup { [p EXCEPT !.steps[i].tool = t] : t \in Tools \ {p.steps[i].tool} }
            \cup { [p EXCEPT !.steps[i].action = a] : a \in Actions \ {p.steps[i].action} }
            \cup { [p EXCEPT !.steps[i].args = v] : v \in ArgValues \ {p.steps[i].args} }
            \cup { [p EXCEPT !.steps[i].inputs.uses_screenshot = ~@],
                   [p EXCEPT !.steps[i].inputs.uses_user_text = ~@],
                   [p EXCEPT !.steps[i].outputs.produces_text = ~@],
                   [p EXCEPT !.steps[i].outputs.produces_side_effect = ~@] }
        list ==
            { [p EXCEPT !.steps = Append(@, PlanStep(StepIdNames[n + 1], "system", "open_app",
                                                     [app |-> "notes"], FALSE))] }
            \cup (IF n > 1
                  THEN { [p EXCEPT !.steps = SubSeq(@, 1, n - 1)],
                         [p EXCEPT !.steps = <<@[n]>> \o SubSeq(@, 1, n - 1)] }
                  ELSE {})
    IN  header \cup UNION { perStep(i) : i \in 1..n } \cup list

\* The approvals that differ from a in one field.
ApprovalVariants(a) ==
    { [a EXCEPT !.approved = ~@],
      [a EXCEPT !.approved_steps = Append(@, "step-2")],
      [a EXCEPT !.approved_steps = SubSeq(@, 1, Len(@) - 1)],
      [a EXCEPT !.requires_confirmation = ~@],
      [a EXCEPT !.constraints.time_limit_sec = 60],
      [a EXCEPT !.constraints.no_screenshot_store = ~@],
      [a EXCEPT !.constraints.redact_before_openai = ~@],
      [a EXCEPT !.policy_signature = <<>>],
      [a EXCEPT !.policy_signature = Append(@, "tamper")] }

\* Another plan altogether, for an approval reused across plans.
ReplayPlan ==
    Plan("play music differently", "system",
         <<PlanStep("step-2", "system", "open_app", [app |-> "notes"], FALSE)>>,
         FALSE, DataOutbound(FALSE), "low", "router")

\* An Approval built by the caller, signed with the shared secret outside the
\* PolicyEngine: every step approved, the default ApprovalConstraints.
forged_approval(p) ==
    LET constraints == ApprovalConstraints(TRUE, TRUE)
        approved_steps == [i \in DOMAIN p.steps |-> p.steps[i].id]
    IN  Approval(TRUE, approved_steps, FALSE, constraints,
                 compute_policy_signature(p, approved_steps, constraints, FALSE,
                                          signature_secret))

\* What a caller holding (p, a) after review may hand to the executor: the pair
\* as issued, the pair with one field of the plan or of the approval changed, or
\* the approval with another plan; when the PolicyEngine issued no approval,
\* no approval or one the caller signed.
Presentable(p, a) ==
    IF a = None
    THEN { <<p, None>>, <<p, forged_approval(p)>> }
    ELSE { <<p, a>>, <<p, None>>, <<ReplayPlan, a>> }
         \cup { <<q, a>> : q \in PlanVariants(p) }
         \cup { <<p, b>> : b \in ApprovalVariants(a) }

StreamStepIds == {"step-1"}

(***************************************************************************)
(* The state machine.                                                      *)
(***************************************************************************)
\* No breaker is built and no clock is read.
\* The worker threads that call record_failure on the breaker of the process.
Threads == {1, 2}

\* A thread outside record_failure that has returned from it returned times.
Outside(returned) == [pc |-> "outside", error |-> None, loaded |-> 0, returned |-> returned]

NoThreadInside == [t \in Threads |-> Outside(0)]

BreakerIdle ==
    /\ breaker = None
    /\ now = 0
    /\ lastCall = None
    /\ failures = 0
    /\ threads = NoThreadInside

\* No step was handed to the confidence engine.
ConfidenceIdle ==
    /\ confStep = None
    /\ retrievers = EmptyDict
    /\ evaluation = None
    /\ confPlan = None
    /\ planEvaluation = None

\* LLM_PROVIDER is unset and no plan was handed to request_approval.
SanitizerIdle ==
    /\ llmProvider = NoneValue
    /\ rawPlan = None

\* No request was handed to the application.
AppIdle ==
    /\ request = None
    /\ response = None
    /\ raised = ""
    /\ trace = <<>>
    /\ auditLog = <<>>

ServicesIdle == BreakerIdle /\ ConfidenceIdle /\ SanitizerIdle /\ AppIdle

\* The engines as constructed.
Engines ==
    \E cfg \in EngineConfigs :
        /\ allowlist = PolicyEngine_allowlist(cfg[1])
        /\ denylist = PolicyEngine_denylist(cfg[2])
        /\ plugins = cfg[3]

Init ==
    /\ Engines
    /\ phase = "idle"
    /\ originArg = "<default>"
    /\ plan = None
    /\ context = None
    /\ approval = None
    /\ policyError = ""
    /\ issuedPlan = None
    /\ issuedApproval = None
    /\ entry = ""
    /\ callbacks = {}
    /\ stops = {}
    /\ results = None
    /\ execError = ""
    /\ calls = <<>>
    /\ ServicesIdle

\* A caller constructs a Plan and a Context.
BuildPlan ==
    /\ phase = "idle"
    /\ \E domain \in Domains, steps \in StepLists, origin \in OriginArgs,
          ctx \in RequestContexts \cup ConfirmedContexts :
          LET p == Plan("play music", domain, steps, FALSE, DataOutbound(FALSE), "low", origin)
          IN  /\ p # None
              /\ plan' = p
              /\ originArg' = origin
              /\ context' = ctx
    /\ phase' = "planned"
    /\ UNCHANGED <<allowlist, denylist, plugins, approval, policyError, issuedPlan,
                   issuedApproval, entry, callbacks, stops, results, execError, calls>>
    /\ UNCHANGED serviceVars

\* approval = PolicyEngine.evaluate(plan, context)
Evaluate ==
    /\ phase = "planned"
    /\ LET r == evaluate(plan, context)
       IN  /\ policyError' = r.error
           /\ approval' = r.approval
           /\ issuedApproval' = r.approval
    /\ issuedPlan' = plan
    /\ phase' = "reviewed"
    /\ UNCHANGED <<allowlist, denylist, plugins, originArg, plan, context, entry,
                   callbacks, stops, results, execError, calls>>
    /\ UNCHANGED serviceVars

\* results = ExecutionEngine.execute(plan, approval)
Execute ==
    /\ phase = "reviewed"
    /\ \E pa \in Presentable(plan, approval) :
          LET r == execute(pa[1], pa[2])
          IN  /\ plan' = pa[1]
              /\ approval' = pa[2]
              /\ results' = IF r.error = "" THEN r.results ELSE None
              /\ execError' = r.error
              /\ calls' = r.calls
    /\ entry' = "execute"
    /\ phase' = "executed"
    /\ UNCHANGED <<allowlist, denylist, plugins, originArg, context, policyError,
                   issuedPlan, issuedApproval, callbacks, stops>>
    /\ UNCHANGED serviceVars

\* results = ExecutionEngine.execute_streaming(plan, approval, stream_callbacks=...,
\*                                             stop_requests=...)
ExecuteStreaming ==
    /\ phase = "reviewed"
    /\ \E pa \in Presentable(plan, approval),
          cbs \in SUBSET StreamStepIds, sts \in SUBSET StreamStepIds :
          LET r == execute_streaming(pa[1], pa[2], cbs, sts)
          IN  /\ plan' = pa[1]
              /\ approval' = pa[2]
              /\ callbacks' = cbs
              /\ stops' = sts
              /\ results' = IF r.error = "" THEN r.results ELSE None
              /\ execError' = r.error
              /\ calls' = r.calls
    /\ entry' = "execute_streaming"
    /\ phase' = "executed"
    /\ UNCHANGED <<allowlist, denylist, plugins, originArg, context, policyError,
                   issuedPlan, issuedApproval>>
    /\ UNCHANGED serviceVars

Next == BuildPlan \/ Evaluate \/ Execute \/ ExecuteStreaming

Spec == Init /\ [][Next]_vars

(***************************************************************************)
(* PolicyEngine.evaluate as a function of its inputs: every plan of the    *)
(* bounded sets under every context and engine configuration.              *)
(***************************************************************************)
ReviewPlans ==
    { Plan("test", domain, steps, rc, DataOutbound(out), risk, "<default>") :
        domain \in Domains, steps \in StepLists, rc \in BOOLEAN, out \in BOOLEAN,
        risk \in Risks }

InitPolicy ==
    /\ Engines
    /\ phase = "planned"
    /\ originArg = "<default>"
    /\ plan \in ReviewPlans
    /\ context \in Contexts
    /\ approval = None
    /\ policyError = ""
    /\ issuedPlan = None
    /\ issuedApproval = None
    /\ entry = ""
    /\ callbacks = {}
    /\ stops = {}
    /\ results = None
    /\ execError = ""
    /\ calls = <<>>
    /\ ServicesIdle

NextPolicy == Evaluate

SpecPolicy == InitPolicy /\ [][NextPolicy]_vars

(***************************************************************************)
(* The circuit breaker under every sequence of calls of its methods, with  *)
(* time passing between the calls.                                         *)
(***************************************************************************)
MaxThreshold == 2
MaxCooldown == 2
MaxTime == 5
MaxFailures == 4

ClientErrors ==
    { [class |-> "TimeoutError", message |-> ""],
      [class |-> "RuntimeError", message |-> "backend down"] }

BreakerCall(op, returned) ==
    [op |-> op, before |-> breaker, at |-> now, returned |-> returned]

\* The plan/approve/execute core with the default engines and no request.
CoreIdle ==
    /\ allowlist = DefaultAllowlist
    /\ denylist = DefaultDenylist
    /\ plugins = AllPlugins
    /\ phase = "idle"
    /\ originArg = "<default>"
    /\ plan = None
    /\ context = None
    /\ approval = None
    /\ policyError = ""
    /\ issuedPlan = None
    /\ issuedApproval = None
    /\ entry = ""
    /\ callbacks = {}
    /\ stops = {}
    /\ results = None
    /\ execError = ""
    /\ calls = <<>>

InitBreaker ==
    /\ CoreIdle
    /\ ConfidenceIdle
    /\ SanitizerIdle
    /\ now = 0
    /\ \E failure_threshold \in 1..MaxThreshold, cooldown_seconds \in 1..MaxCooldown :
          breaker = LLMHealthCircuitBreaker(failure_threshold, cooldown_seconds)
    /\ lastCall = [op |-> "__init__", before |-> None, at |-> 0, returned |-> None]
    /\ failures = 0
    /\ threads = NoThreadInside
    /\ AppIdle

\* breaker.allow_request()
AllowRequest ==
    /\ LET r == allow_request(breaker, now)
       IN  /\ breaker' = r.breaker
           /\ lastCall' = BreakerCall("allow_request", r.returned)
    /\ UNCHANGED <<now, failures, threads>>
    /\ UNCHANGED outsideBreaker

\* breaker.record_success()
RecordSuccess ==
    /\ breaker' = record_success(breaker)
    /\ lastCall' = BreakerCall("record_success", None)
    /\ failures' = 0
    /\ UNCHANGED <<now, threads>>
    /\ UNCHANGED outsideBreaker

\* breaker.record_failure(error)
RecordFailure ==
    /\ failures < MaxFailures
    /\ breaker._fail_count < MaxFailures
    /\ \E error \in ClientErrors : breaker' = record_failure(breaker, error, now)
    /\ lastCall' = BreakerCall("record_failure", None)
    /\ failures' = failures + 1
    /\ UNCHANGED <<now, threads>>
    /\ UNCHANGED outsideBreaker

\* A second passes.
Tick ==
    /\ now < MaxTime
    /\ now' = now + 1
    /\ UNCHANGED <<breaker, lastCall, failures, threads>>
    /\ UNCHANGED outsideBreaker

NextBreaker == AllowRequest \/ RecordSuccess \/ RecordFailure \/ Tick

SpecBreaker == InitBreaker /\ [][NextBreaker]_vars

(***************************************************************************)
(* record_failure called by worker threads on the breaker they share.  The *)
(* class has no lock, so a thread may be suspended between any two         *)
(* accesses of an attribute: each action is one access of one thread.      *)
(* `self._fail_count += 1` is a load and a store.  allow_request and the   *)
(* clock run between the steps.                                            *)
(***************************************************************************)
MaxCallsPerThread == 1

\* The thread t at position pc.
At(t, pc) == threads[t].pc = pc

\* The thread t moves to position pc.
Goto(t, pc) == [threads EXCEPT ![t].pc = pc]

\* The thread t returns from record_failure.
Return(t) == [threads EXCEPT ![t] = Outside(threads[t].returned + 1)]

\* A thread calls breaker.record_failure(error).
RecordFailureCall ==
    /\ \E t \in Threads, error \in ClientErrors :
          /\ At(t, "outside")
          /\ threads[t].returned < MaxCallsPerThread
          /\ threads' = [threads EXCEPT ![t].pc = "note", ![t].error = error]
    /\ UNCHANGED <<breaker, now, lastCall, failures>>
    /\ UNCHANGED outsideBreaker

\* self._last_error = _sanitize_error(error)
RecordFailureNote ==
    /\ \E t \in Threads :
          /\ At(t, "note")
          /\ breaker' = [breaker EXCEPT !._last_error = _sanitize_error(threads[t].error)]
          /\ threads' = Goto(t, "test")
    /\ UNCHANGED <<now, lastCall, failures>>
    /\ UNCHANGED outsideBreaker

\* if self._state == "HALF_OPEN": self._open_breaker(); return
RecordFailureTest ==
    /\ \E t \in Threads :
          /\ At(t, "test")
          /\ threads' = Goto(t, IF breaker._state = "HALF_OPEN" THEN "open" ELSE "load")
    /\ UNCHANGED <<breaker, now, lastCall, failures>>
    /\ UNCHANGED outsideBreaker

\* self._fail_count += 1: the attribute is read
RecordFailureLoad ==
    /\ \E t \in Threads :
          /\ At(t, "load")
          /\ threads' = [threads EXCEPT ![t].pc = "store", ![t].loaded = breaker._fail_count]
    /\ UNCHANGED <<breaker, now, lastCall, failures>>
    /\ UNCHANGED outsideBreaker

\* self._fail_count += 1: the sum is written
RecordFailureStore ==
    /\ \E t \in Threads :
          /\ At(t, "store")
          /\ breaker' = [breaker EXCEPT !._fail_count = threads[t].loaded + 1]
          /\ threads' = Goto(t, "compare")
    /\ UNCHANGED <<now, lastCall, failures>>
    /\ UNCHANGED outsideBreaker

\* if self._fail_count >= self.failure_threshold: self._open_breaker()
RecordFailureCompare ==
    /\ \E t \in Threads :
          /\ At(t, "compare")
          /\ threads' = IF breaker._fail_count >= breaker.failure_threshold
                        THEN Goto(t, "open")
                        ELSE Return(t)
    /\ UNCHANGED <<breaker, now, lastCall, failures>>
    /\ UNCHANGED outsideBreaker

\* _open_breaker: self._state = "OPEN"
OpenBreakerState ==
    /\ \E t \in Threads :
          /\ At(t, "open")
          /\ breaker' = [breaker EXCEPT !._state = "OPEN"]
          /\ threads' = Goto(t, "open_count")
    /\ UNCHANGED <<now, lastCall, failures>>
    /\ UNCHANGED outsideBreaker

\* _open_breaker: self._fail_count = max(self._fail_count, self.failure_threshold)
OpenBreakerCount ==
    /\ \E t \in Threads :
          /\ At(t, "open_count")
          /\ breaker' = [breaker EXCEPT
                             !._fail_count = Max(breaker._fail_count, breaker.failure_threshold)]
          /\ threads' = Goto(t, "open_at")
    /\ UNCHANGED <<now, lastCall, failures>>
    /\ UNCHANGED outsideBreaker

\* _open_breaker: self._opened_at = time.monotonic(), and record_failure returns
OpenBreakerAt ==
    /\ \E t \in Threads :
          /\ At(t, "open_at")
          /\ breaker' = [breaker EXCEPT !._opened_at = now]
          /\ threads' = Return(t)
    /\ UNCHANGED <<now, lastCall, failures>>
    /\ UNCHANGED outsideBreaker

NextThreads ==
    \/ RecordFailureCall
    \/ RecordFailureNote
    \/ RecordFailureTest
    \/ RecordFailureLoad
    \/ RecordFailureStore
    \/ RecordFailureCompare
    \/ OpenBreakerState
    \/ OpenBreakerCount
    \/ OpenBreakerAt
    \/ AllowRequest
    \/ Tick

SpecThreads == InitBreaker /\ [][NextThreads]_vars

(***************************************************************************)
(* ConfidenceEngine.evaluate_step as a function of its inputs: every step  *)
(* of the bounded sets under every registration of a retrieval callback.   *)
(***************************************************************************)
\* An argument: blank strings, a string with surrounding blanks, None, a number.
FieldValues == {"", "  ", " daft ", NoneValue, IntValue}

\* The dicts with keys among keys and values among values.
Dicts(keys, values) == UNION { [ks -> values] : ks \in SUBSET keys }

Range(s) == { s[i] : i \in DOMAIN s }

\* The (tool, action) pairs evaluated: the recognized ones and two that are not.
IntentKeys == DOMAIN _INTENT_SPECS \cup { <<"openai", "translate">>, <<"unknown", "do">> }

\* The argument names of a pair: the fields its IntentSpec names.
FieldsOf(key) ==
    IF key \in DOMAIN _INTENT_SPECS
    THEN Range(_INTENT_SPECS[key].required_fields)
         \cup Range(_INTENT_SPECS[key].optional_fields)
    ELSE {"prompt"}

\* The steps: every dict over the pair's fields, with or without one more argument.
ConfidenceSteps ==
    UNION { { PlanStep("step-1", key[1], key[2], args @@ note, FALSE) :
                args \in Dicts(FieldsOf(key), FieldValues),
                note \in Dicts({"note"}, {"", "remember"}) }
            : key \in IntentKeys }

\* Scores a callback returns, below, within and above [0, 1]; none of them puts a
\* final score on a threshold of _decision_for, where the sums of binary
\* floating point (0.4 + 0.3 + 0.2 is just below 0.9) and exact sums differ.
RetrievalResults == {-200, 0, 450, 700, 1000, 1300}

Callbacks ==
    { [raises |-> TRUE, message |-> "index offline", result |-> 0] }
    \cup { [raises |-> FALSE, message |-> "", result |-> r] : r \in RetrievalResults }

\* The steps a plan holds beside the step under evaluation: two that lack a
\* required field, one with every field, one of no recognized intent.
OtherSteps ==
    { PlanStep("step-2", "openai", "draft_email", [to |-> "user@example.com"], FALSE),
      PlanStep("step-2", "openai", "draft", [prompt |-> "  "], FALSE),
      PlanStep("step-2", "system", "open_app", [app |-> "spotify"], FALSE),
      PlanStep("step-2", "unknown", "do", EmptyDict, FALSE) }

\* The step lists of the plans handed to evaluate_plan.
ConfidenceStepLists(step) ==
    { <<step>> } \cup { <<step, other>> : other \in OtherSteps }
                 \cup { <<other, step>> : other \in OtherSteps }

\* The intent a callback is registered under for a step.
IntentOf(step) ==
    IF intent_spec_for(step.tool, step.action) = None
    THEN "media.play"
    ELSE intent_spec_for(step.tool, step.action).intent

\* ConfidenceEngine.__init__: `retrieval_providers or {}`
ConfidenceEngine(retrieval_providers) ==
    IF retrieval_providers = None THEN EmptyDict ELSE retrieval_providers

InitConfidence ==
    /\ CoreIdle
    /\ BreakerIdle
    /\ SanitizerIdle
    /\ confStep \in ConfidenceSteps
    /\ \E arg \in {None} \cup { IntentOf(confStep) :> cb : cb \in Callbacks } :
          retrievers = ConfidenceEngine(arg)
    /\ evaluation = None
    /\ confPlan = None
    /\ planEvaluation = None
    /\ AppIdle

\* evaluation = engine.evaluate_step(step)
EvaluateStep ==
    /\ evaluation = None
    /\ planEvaluation = None
    /\ evaluation' = evaluate_step(confStep, retrievers)
    /\ UNCHANGED <<confStep, retrievers, confPlan, planEvaluation>>
    /\ UNCHANGED outsideConfidence

\* plan_evaluation = engine.evaluate_plan(plan), for a plan of the step alone
\* or of the step before or after another one.
EvaluatePlan ==
    /\ evaluation = None
    /\ planEvaluation = None
    /\ \E steps \in ConfidenceStepLists(confStep) :
          LET p == Plan("test", "mixed", steps, FALSE, DataOutbound(FALSE), "low", "<default>")
          IN  /\ confPlan' = p
              /\ planEvaluation' = evaluate_plan(p, retrievers)
    /\ UNCHANGED <<confStep, retrievers, evaluation>>
    /\ UNCHANGED outsideConfidence

NextConfidence == EvaluateStep \/ EvaluatePlan

SpecConfidence == InitConfidence /\ [][NextConfidence]_vars

(***************************************************************************)
(* VictusApp.request_approval followed by ExecutionEngine.execute, of the  *)
(* plan as prepared or of the raw plan, under every provider setting.      *)
(***************************************************************************)
\* The audit log holds at most MaxAudit records.
MaxAudit == 1

ProviderSettings == {NoneValue, "", "ollama", "openai", " OpenAI ", "gemini", "groq", "llamafile"}

\* <<tool, action, args>> of the steps of the plans handed to request_approval.
RawStepKinds ==
    { <<"openai", "draft", [prompt |-> "secret"]>>,
      <<"openai", "draft", [prompt |-> "secret", max_tokens |-> IntValue]>>,
      <<"openai", "draft_email", MailArgs>>,
      <<"gmail", "send", MailArgs>>,
      <<"system", "open_app", [app |-> "spotify"]>> }

RawStepLists ==
    UNION { { [i \in 1..n |-> PlanStep(StepIdNames[i], k[i][1], k[i][2], k[i][3], FALSE)]
              : k \in [1..n -> RawStepKinds] }
            : n \in 1..MaxSteps }

RawPlans ==
    { [Plan("draft a note", domain, steps, FALSE, DataOutbound(out), "low", "<default>")
          EXCEPT !.data_outbound.redaction_required = red] :
        domain \in {"productivity", "mixed"}, steps \in RawStepLists,
        out \in BOOLEAN, red \in BOOLEAN }

InitSanitizer ==
    /\ allowlist = DefaultAllowlist
    /\ denylist = DefaultDenylist
    /\ plugins = AllPlugins
    /\ phase = "planned"
    /\ originArg = "<default>"
    /\ plan = None
    /\ context \in RequestContexts
    /\ approval = None
    /\ policyError = ""
    /\ issuedPlan = None
    /\ issuedApproval = None
    /\ entry = ""
    /\ callbacks = {}
    /\ stops = {}
    /\ results = None
    /\ execError = ""
    /\ calls = <<>>
    /\ BreakerIdle
    /\ ConfidenceIdle
    /\ llmProvider \in ProviderSettings
    /\ rawPlan \in RawPlans
    /\ AppIdle

\* prepared_plan, approval = app.request_approval(raw_plan, context)
RequestApproval ==
    /\ phase = "planned"
    /\ LET r == request_approval(rawPlan, context, llmProvider)
       IN  /\ plan' = (IF r.error = "" THEN r.plan ELSE None)
           /\ approval' = r.approval
           /\ policyError' = r.error
           /\ issuedPlan' = r.plan
           /\ issuedApproval' = r.approval
    /\ phase' = "reviewed"
    /\ UNCHANGED <<allowlist, denylist, plugins, originArg, context, entry, callbacks,
                   stops, results, execError, calls>>
    /\ UNCHANGED <<llmProvider, rawPlan>>
    /\ UNCHANGED outsideSanitizer

\* app.executor.execute(prepared_plan, approval)
ExecutePrepared ==
    /\ phase = "reviewed"
    /\ approval # None
    /\ LET r == execute(plan, approval)
       IN  /\ results' = (IF r.error = "" THEN r.results ELSE None)
           /\ execError' = r.error
           /\ calls' = r.calls
    /\ entry' = "execute"
    /\ phase' = "executed"
    /\ UNCHANGED <<allowlist, denylist, plugins, originArg, plan, context, approval,
                   policyError, issuedPlan, issuedApproval, callbacks, stops>>
    /\ UNCHANGED <<llmProvider, rawPlan>>
    /\ UNCHANGED outsideSanitizer

\* app.executor.execute(raw_plan, approval)
ExecuteRaw ==
    /\ phase = "reviewed"
    /\ approval # None
    /\ LET r == execute(rawPlan, approval)
       IN  /\ results' = (IF r.error = "" THEN r.results ELSE None)
           /\ execError' = r.error
           /\ calls' = r.calls
    /\ plan' = rawPlan
    /\ entry' = "execute"
    /\ phase' = "executed"
    /\ UNCHANGED <<allowlist, denylist, plugins, originArg, context, approval,
                   policyError, issuedPlan, issuedApproval, callbacks, stops>>
    /\ UNCHANGED <<llmProvider, rawPlan>>
    /\ UNCHANGED outsideSanitizer

\* record = app.audit.log_request("test", raw_plan, approval, results, None):
\* the caller hands the logger the plan as it was before request_approval.
LogRequest ==
    /\ phase \in {"reviewed", "executed"}
    /\ Len(auditLog) < MaxAudit
    /\ auditLog' = Append(auditLog, log_request("test", rawPlan, approval, results, llmProvider))
    /\ UNCHANGED <<request, response, raised, trace>>
    /\ UNCHANGED <<coreVars, breakerVars, confidenceVars, sanitizerVars>>

\* app.audit.log_request(user_input, prepared_plan, approval, results, errors=None):
\* the request handlers hand the logger the plan request_approval returned, once
\* execute_plan has returned the results of that plan.
LogPreparedRequest ==
    /\ phase = "executed"
    /\ execError = ""
    /\ plan = issuedPlan
    /\ \A i \in DOMAIN auditLog : auditLog[i].user_input # issuedPlan.goal
    /\ Len(auditLog) < MaxAudit
    /\ auditLog' = Append(auditLog, log_request(issuedPlan.goal, issuedPlan, approval,
                                                results, llmProvider))
    /\ UNCHANGED <<request, response, raised, trace>>
    /\ UNCHANGED <<coreVars, breakerVars, confidenceVars, sanitizerVars>>

NextSanitizer ==
    RequestApproval \/ ExecutePrepared \/ ExecuteRaw \/ LogRequest \/ LogPreparedRequest

SpecSanitizer == InitSanitizer /\ [][NextSanitizer]_vars

(***************************************************************************)
(* The application: a VictusApp over the default PolicyEngine, with the    *)
(* OpenAIClientPlugin registered for openai, serving one call after the    *)
(* other on the process's circuit breaker: run_request_sync,               *)
(* run_request_streaming, and execute_plan / execute_plan_streaming on the *)
(* plan and approval the caller holds from the latest request.  The        *)
(* backend client of a step returns or raises.  The evaluation log is      *)
(* writable: confidence_logger.append returns.                             *)
(***************************************************************************)
MaxAppTime == 30
ClockStep == 30

AppPlugins == [system |-> "SystemPlugin", gmail |-> "GmailPlugin", openai |-> "OpenAIClientPlugin"]

UserInputs == {"", "cpu usage", "network status", "open connections", "write a poem"}

AppStepLists ==
    LET draft == PlanStep("step-1", "openai", "draft", [prompt |-> "secret"], FALSE)
        blank == PlanStep("step-1", "openai", "draft", [prompt |-> "  "], FALSE)
        generate == PlanStep("step-1", "openai", "generate_text",
                             [prompt |-> "secret", to |-> "user@example.com"], FALSE)
        partial == PlanStep("step-1", "openai", "draft_email",
                            [to |-> "user@example.com"], FALSE)
        open == PlanStep("step-1", "system", "open_app", [app |-> "spotify"], FALSE)
        terminal == PlanStep("step-1", "system", "open_app", [app |-> "terminal"], FALSE)
        summary == PlanStep("step-2", "openai", "summarize_text", [text |-> "notes"], FALSE)
        second == PlanStep("step-2", "openai", "draft", [prompt |-> "secret"], FALSE)
    IN  { <<>>, <<draft>>, <<blank>>, <<generate>>, <<partial>>, <<open>>, <<terminal>>,
          <<draft, summary>>, <<open, second>> }

\* <<user_input, steps>>: the router's plans do not read the steps.
Requests ==
    { <<u, <<>>>> : u \in UserInputs \ {"write a poem"} }
    \cup { <<"write a poem", s>> : s \in AppStepLists }

Returns == [raises |-> FALSE, class |-> "", message |-> "", chunk_error |-> ""]

\* The client returns, or raises; or it returns and the caller's chunk callback
\* raises on a chunk of the content.
ClientOutcomes ==
    { Returns,
      [raises |-> TRUE, class |-> "TimeoutError", message |-> "", chunk_error |-> ""],
      [raises |-> FALSE, class |-> "", message |-> "", chunk_error |-> "RuntimeError"] }

\* What the client and the chunk callback do at each step: only openai steps
\* have a client, and only a text generation with a callback is fed in chunks.
OutcomesFor(steps, stream_callbacks) ==
    { o \in [DOMAIN steps -> ClientOutcomes] :
        \A i \in DOMAIN steps :
            /\ steps[i].tool # "openai" => o[i] = Returns
            /\ o[i].chunk_error # "" =>
                  /\ steps[i].id \in stream_callbacks
                  /\ steps[i].action \in {"draft", "generate_text"} }

\* The chunk callbacks and stop predicates a streaming caller passes.
StreamArgs == { <<{"step-1"}, {}>> }

InitApp ==
    /\ allowlist = DefaultAllowlist
    /\ denylist = DefaultDenylist
    /\ plugins = AppPlugins
    /\ phase = "idle"
    /\ originArg = "<default>"
    /\ plan = None
    /\ context \in RequestContexts
    /\ approval = None
    /\ policyError = ""
    /\ issuedPlan = None
    /\ issuedApproval = None
    /\ entry = ""
    /\ callbacks = {}
    /\ stops = {}
    /\ results = None
    /\ execError = ""
    /\ calls = <<>>
    /\ BreakerIdle
    /\ ConfidenceIdle
    /\ llmProvider \in {NoneValue, "openai"}
    /\ rawPlan = None
    /\ AppIdle

\* The state after a request handler ran as r.
AfterRequest(op, user_input, r, streaming, stream_callbacks, stop_requests) ==
    /\ Len(auditLog) + Len(r.audit) <= MaxAudit
    /\ request' = [op |-> op, user_input |-> user_input]
    /\ response' = r.response
    /\ raised' = (IF r.raised # "" THEN "PolicyError" ELSE "")
    /\ trace' = r.trace
    /\ auditLog' = auditLog \o r.audit
    /\ breaker' = r.breaker
    /\ rawPlan' = r.raw
    /\ plan' = r.plan
    /\ issuedPlan' = r.plan
    /\ approval' = r.approval
    /\ issuedApproval' = r.approval
    /\ policyError' = r.raised
    /\ results' = (IF r.approval # None /\ r.execError = "" THEN r.results ELSE None)
    /\ execError' = r.execError
    /\ calls' = r.calls
    /\ entry' = (IF r.approval = None THEN ""
                 ELSE IF streaming THEN "execute_streaming" ELSE "execute")
    /\ callbacks' = stream_callbacks
    /\ stops' = stop_requests
    /\ phase' = (IF r.approval # None THEN "executed"
                 ELSE IF r.plan # None THEN "reviewed" ELSE "planned")
    /\ UNCHANGED <<allowlist, denylist, plugins, originArg, context>>
    /\ UNCHANGED <<now, lastCall, failures, threads, llmProvider>>
    /\ UNCHANGED confidenceVars

\* One of the two request handlers, call by call.  gate2 is asked on the
\* breaker as gate1 left it; a call the handler cannot reach for want of its
\* arguments is None.
RunRequest(op, streaming, stream_callbacks, stop_requests, appends) ==
    \E req \in Requests :
    \E logged \in appends :
    \E outcomes \in OutcomesFor(req[2], stream_callbacks) :
    \E b \in { get_llm_circuit_breaker(breaker) } :
    \E routed \in { route(req[1]) } :
    \E gate1 \in { allow_request(b, now) } :
    \E built \in { IF routed.raises THEN None
                   ELSE IF routed.plan # None THEN routed.plan
                   ELSE Plan(req[1], "productivity", req[2], FALSE, DataOutbound(FALSE),
                             "low", "<default>") } :
    \E gate2 \in { allow_request(IF routed.plan = None THEN gate1.breaker ELSE b, now) } :
    \E b2 \in { IF built # None /\ _plan_requires_llm(built) THEN gate2.breaker
                ELSE IF routed.plan = None THEN gate1.breaker ELSE b } :
    \E confidence \in { IF built = None THEN None ELSE evaluate_plan(built, EmptyDict) } :
    \E reviewed \in { IF built = None THEN None
                      ELSE request_approval(built, context, llmProvider) } :
    \E ran \in { IF built = None \/ reviewed.approval = None THEN None
                 ELSE run_plan(reviewed.plan, reviewed.approval, streaming,
                               stream_callbacks, stop_requests, b2, now, outcomes) } :
    \E r \in { run_request(req[1], llmProvider, b, routed, gate1, built,
                           [gate2 EXCEPT !.breaker = b2], confidence, logged, reviewed,
                           ran) } :
        AfterRequest(op, req[1], r, streaming, stream_callbacks, stop_requests)

\* app.run_request_sync(user_input, context, "productivity", steps)
RunRequestSync == RunRequest("run_request_sync", FALSE, {}, {}, {""})

\* app.run_request_streaming(user_input, context, "productivity", steps,
\*                           stream_callbacks=..., stop_requests=...)
RunRequestStreaming ==
    \E s \in StreamArgs : RunRequest("run_request_streaming", TRUE, s[1], s[2], {""})

\* The state after the executor ran as r on the plan and approval held.
AfterExecution(op, r, streaming, stream_callbacks, stop_requests) ==
    /\ request' = [request EXCEPT !.op = op]
    /\ response' = (IF r.error = "" THEN r.results ELSE None)
    /\ raised' = (IF r.error = "" THEN "" ELSE exception_type(r.error))
    /\ trace' = r.trace
    /\ breaker' = r.breaker
    /\ results' = (IF r.error = "" THEN r.results ELSE None)
    /\ execError' = r.error
    /\ calls' = r.calls
    /\ entry' = (IF streaming THEN "execute_streaming" ELSE "execute")
    /\ callbacks' = stream_callbacks
    /\ stops' = stop_requests
    /\ phase' = "executed"
    /\ UNCHANGED <<allowlist, denylist, plugins, originArg, plan, context, approval,
                   policyError, issuedPlan, issuedApproval>>
    /\ UNCHANGED <<now, lastCall, failures, threads, llmProvider, rawPlan, auditLog>>
    /\ UNCHANGED confidenceVars

\* app.execute_plan(prepared_plan, approval)
ExecutePlan ==
    /\ approval # None
    /\ \E outcomes \in OutcomesFor(plan.steps, {}) :
          \E r \in { run_plan(plan, approval, FALSE, {}, {}, breaker, now, outcomes) } :
              AfterExecution("execute_plan", r, FALSE, {}, {})

\* app.execute_plan_streaming(prepared_plan, approval, stream_callbacks=...,
\*                            stop_requests=...)
ExecutePlanStreaming ==
    /\ approval # None
    /\ \E s \in StreamArgs : \E outcomes \in OutcomesFor(plan.steps, s[1]) :
          \E r \in { run_plan(plan, approval, TRUE, s[1], s[2], breaker, now, outcomes) } :
              AfterExecution("execute_plan_streaming", r, TRUE, s[1], s[2])

\* Time passes between two calls.
Wait ==
    /\ now < MaxAppTime
    /\ now' = now + ClockStep
    /\ UNCHANGED <<breaker, lastCall, failures, threads>>
    /\ UNCHANGED <<coreVars, confidenceVars, sanitizerVars, appVars>>

NextApp ==
    \/ RunRequestSync
    \/ RunRequestStreaming
    \/ ExecutePlan
    \/ ExecutePlanStreaming
    \/ Wait

SpecApp == InitApp /\ [][NextApp]_vars

(***************************************************************************)
(* The request handlers of the application when the evaluation log may     *)
(* fail: ConfidenceLogger.append hands the evaluation to append_jsonl,     *)
(* which writes a file and returns or raises OSError.                      *)
(***************************************************************************)
AppendOutcomes == {"", "OSError"}

RunRequestSyncLogging == RunRequest("run_request_sync", FALSE, {}, {}, AppendOutcomes)

RunRequestStreamingLogging ==
    \E s \in StreamArgs : RunRequest("run_request_streaming", TRUE, s[1], s[2], AppendOutcomes)

NextLogging ==
    \/ RunRequestSyncLogging
    \/ RunRequestStreamingLogging
    \/ Wait

SpecLogging == InitApp /\ [][NextLogging]_vars

(***************************************************************************)
(* Properties.                                                             *)
(***************************************************************************)
Executed == phase = "executed"

\* An approval was issued for issuedPlan.
Issued == issuedApproval # None

\* The pair handed to the executor is the pair PolicyEngine.evaluate saw and returned.
Unmodified == plan = issuedPlan /\ approval = issuedApproval

\* The fields of a plan and of an approval that an approval is bound to.
BoundPlanFields(p) ==
    <<p.goal, p.domain, p.risk, p.requires_confirmation, p.data_outbound,
      [i \in DOMAIN p.steps |->
          <<p.steps[i].id, p.steps[i].tool, p.steps[i].action, p.steps[i].args,
            p.steps[i].inputs, p.steps[i].outputs>>]>>

BoundApprovalFields(a) == <<a.approved_steps, a.constraints, a.requires_confirmation>>

NoPluginExecuted ==
    \A i \in DOMAIN calls : calls[i].method \notin {"execute", "stream_execute"}

\* C1: when a bound field of the plan (goal, domain, risk, requires_confirmation,
\* data_outbound, a step's id/tool/action/args/inputs/outputs) or of the approval
\* (approved_steps, constraints, requires_confirmation) differs from what
\* PolicyEngine.evaluate reviewed and returned, or the approval comes with another
\* plan, execute raises ExecutionError and no plugin's execute is invoked.
C1_TamperedPairRefused ==
    (/\ Executed /\ entry = "execute" /\ Issued /\ approval # None
     /\ \/ BoundPlanFields(plan) # BoundPlanFields(issuedPlan)
        \/ BoundApprovalFields(approval) # BoundApprovalFields(issuedApproval))
    => /\ execError = "Execution refused: approval signature invalid or tampered"
       /\ results = None
       /\ NoPluginExecuted

C1_Witness ==
    /\ Executed /\ entry = "execute" /\ Issued
    /\ approval = issuedApproval
    /\ Len(plan.steps) = Len(issuedPlan.steps)
    /\ [plan EXCEPT !.steps[1].args = issuedPlan.steps[1].args] = issuedPlan
    /\ plan.steps[1].args # issuedPlan.steps[1].args
    /\ SystemPlugin_validate_args(plan.steps[1].action, plan.steps[1].args)
    /\ execError = "Execution refused: approval signature invalid or tampered"

\* C2: execute and execute_streaming raise ExecutionError, without invoking
\* validate_args or execute on any plugin, when the approval is None, has
\* approved = false, or has an empty policy_signature.
C2_MissingApprovalRefused ==
    (/\ Executed
     /\ \/ approval = None
        \/ ~approval.approved
        \/ approval.policy_signature = <<>>)
    => /\ execError # ""
       /\ results = None
       /\ calls = <<>>

C2_Witness ==
    /\ Executed /\ entry = "execute_streaming" /\ Issued
    /\ approval # None
    /\ ~approval.approved
    /\ approval.policy_signature = issuedApproval.policy_signature
    /\ plan = issuedPlan
    /\ plan.domain = "mixed"
    /\ execError = "Execution refused: approval is missing or not approved"

C4_DefaultOriginSystemPlanRuns ==
    (/\ Executed /\ entry = "execute" /\ Unmodified
     /\ originArg = "<default>"
     /\ plan.domain = "system"
     /\ Len(plan.steps) = 1
     /\ plan.steps[1].tool = "system" /\ plan.steps[1].action = "open_app"
     /\ ~plan.steps[1].inputs.uses_screenshot
     /\ SystemPlugin_validate_args("open_app", plan.steps[1].args)
     /\ plugins["system"] = "SystemPlugin")
    => /\ policyError = ""
       /\ Issued
       /\ execError = ""
       /\ results # None
       /\ plan.steps[1].id \in DOMAIN results
       /\ results[plan.steps[1].id].action = "open_app"

\* The accepted steps of a plan: the domain and origin rules of the executor hold,
\* every tool has a registered plugin and every plugin accepts the step's args.
ExecutionRulesHold(p) ==
    /\ p.domain = "productivity" => \A i \in DOMAIN p.steps : p.steps[i].tool # "system"
    /\ p.domain = "system" =>
          p.origin = "router" /\ \A i \in DOMAIN p.steps : p.steps[i].tool = "system"
    /\ \A i \in DOMAIN p.steps :
          /\ p.steps[i].tool \in DOMAIN plugins
          /\ validate_args(plugins[p.steps[i].tool], p.steps[i].action, p.steps[i].args)

Reviewed == phase = "reviewed"

\* evaluate raised PolicyError and returned no Approval.
Rejected == policyError # "" /\ approval = None

ToolInDomain(tool, domain) == tool \in DOMAIN tool_domains /\ tool_domains[tool] = domain

DomainGrounds ==
    {"Unknown tool is not mapped to a domain",
     "Productivity tool used inside a system-only plan",
     "System tool used inside a productivity-only plan",
     "Tool is not permitted in its declared domain"}

\* C6: evaluate raises PolicyError for every productivity plan with a step whose
\* tool is mapped to the system domain and for every system plan with a step whose
\* tool is mapped to the productivity domain; a mixed plan whose tools all have a
\* domain mapping is never rejected on domain grounds.
C6_DomainSeparation ==
    Reviewed =>
       /\ (/\ plan.domain = "productivity"
           /\ \E i \in DOMAIN plan.steps : ToolInDomain(plan.steps[i].tool, "system"))
          => Rejected
       /\ (/\ plan.domain = "system"
           /\ \E i \in DOMAIN plan.steps : ToolInDomain(plan.steps[i].tool, "productivity"))
          => Rejected
       /\ (/\ plan.domain = "mixed"
           /\ \A i \in DOMAIN plan.steps : plan.steps[i].tool \in DOMAIN tool_domains)
          => policyError \notin DomainGrounds

C6_Witness ==
    /\ Reviewed
    /\ plan.domain = "productivity"
    /\ Len(plan.steps) = 2
    /\ plan.steps[1].tool = "gmail"
    /\ plan.steps[2].tool = "system" /\ plan.steps[2].action = "open_app"
    /\ policyError = "System tool used inside a productivity-only plan"
    /\ approval = None

Denylisted(step) ==
    step.action \in denylist \/ (step.tool \o "." \o step.action) \in denylist

Allowlisted(step) == step.tool \in DOMAIN allowlist /\ step.action \in allowlist[step.tool]

\* C7: whatever the allowlist and denylist, a plan with a step whose bare action or
\* tool.action is in the denylist is rejected with PolicyError, also when that
\* tool/action pair is in the allowlist.
C7_DenylistWins ==
    (Reviewed /\ \E i \in DOMAIN plan.steps : Denylisted(plan.steps[i])) => Rejected

C7_Witness ==
    /\ Reviewed
    /\ Len(plan.steps) = 1
    /\ Denylisted(plan.steps[1]) /\ Allowlisted(plan.steps[1])
    /\ plan.steps[1].action \notin denylist
    /\ policyError = "Action is denylisted"
    /\ approval = None

\* C8: evaluate either raises PolicyError and returns no Approval, or returns an
\* Approval with approved = true whose approved_steps is the list of all step ids
\* of the plan in plan order; never an Approval for a strict subset of the steps.
C8_AllOrNothing ==
    Reviewed =>
       \/ Rejected
       \/ /\ policyError = ""
          /\ approval # None
          /\ approval.approved
          /\ Len(approval.approved_steps) = Len(plan.steps)
          /\ \A i \in DOMAIN plan.steps : approval.approved_steps[i] = plan.steps[i].id

C8_Witness ==
    /\ Reviewed
    /\ approval # None
    /\ Len(plan.steps) = 2
    /\ approval.approved_steps = <<"step-1", "step-2">>

\* C9: evaluate raises PolicyError, and issues no Approval, when the plan has
\* data_outbound.to_openai or a step with tool openai while the context does not
\* allow sending to OpenAI, and when a step uses a screenshot while the context
\* does not allow screenshots.
C9_PrivacyGates ==
    Reviewed =>
       /\ (/\ \/ plan.data_outbound.to_openai
              \/ \E i \in DOMAIN plan.steps : plan.steps[i].tool = "openai"
           /\ ~context.privacy.allow_send_to_openai)
          => Rejected
       /\ (/\ \E i \in DOMAIN plan.steps : plan.steps[i].inputs.uses_screenshot
           /\ ~context.privacy.allow_screenshot)
          => Rejected

C9_Witness ==
    /\ Reviewed
    /\ ~plan.data_outbound.to_openai
    /\ plan.domain = "mixed"
    /\ Len(plan.steps) = 2
    /\ plan.steps[1].tool = "system"
    /\ plan.steps[2].tool = "openai"
    /\ ~context.privacy.allow_send_to_openai
    /\ policyError = "Outbound data to OpenAI not permitted by privacy settings"
    /\ approval = None

\* C10: for every approved plan, approval.requires_confirmation is true exactly
\* when plan.requires_confirmation is true, or plan.risk is medium or high, or
\* some step is gmail.send; so a low-risk plan with gmail.send gets it true.
C10_ConfirmationRule ==
    (Reviewed /\ approval # None) =>
       (approval.requires_confirmation <=>
           \/ plan.requires_confirmation
           \/ plan.risk \in {"medium", "high"}
           \/ \E i \in DOMAIN plan.steps :
                 plan.steps[i].tool = "gmail" /\ plan.steps[i].action = "send")

C10_Witness ==
    /\ Reviewed /\ approval # None
    /\ plan.risk = "low" /\ ~plan.requires_confirmation
    /\ \E i \in DOMAIN plan.steps :
          plan.steps[i].tool = "gmail" /\ plan.steps[i].action = "send"
    /\ approval.requires_confirmation

(***************************************************************************)
(* Properties of the circuit breaker (SpecBreaker).                        *)
(***************************************************************************)
\* The latest breaker call was op, made on a breaker in state s.
LastCallWas(op, s) == lastCall.op = op /\ lastCall.before._state = s

\* C11: starting from CLOSED, the breaker is OPEN after a record_failure exactly
\* when that call is the failure_threshold-th since the latest record_success
\* (or since construction), and stays CLOSED before that; record_success in any
\* state leaves the state CLOSED and the failure count 0.
C11_OpensAtThreshold ==
    /\ breaker._state = "CLOSED" =>
          /\ failures < breaker.failure_threshold
          /\ breaker._fail_count = failures
    /\ LastCallWas("record_failure", "CLOSED") =>
          /\ failures <= breaker.failure_threshold
          /\ breaker._state =
                (IF failures = breaker.failure_threshold THEN "OPEN" ELSE "CLOSED")
    /\ lastCall.op = "record_success" =>
          /\ breaker._state = "CLOSED"
          /\ breaker._fail_count = 0

C11_Witness ==
    /\ LastCallWas("record_failure", "CLOSED")
    /\ breaker.failure_threshold = 2
    /\ lastCall.before._fail_count = 1
    /\ failures = 2
    /\ breaker._state = "OPEN"

C13_HalfOpenTrial ==
    /\ LastCallWas("record_failure", "HALF_OPEN") =>
          /\ breaker._state = "OPEN"
          /\ breaker._opened_at = lastCall.at
    /\ LastCallWas("record_success", "HALF_OPEN") =>
          /\ breaker._state = "CLOSED"
          /\ breaker._fail_count = 0

C13_Witness ==
    /\ LastCallWas("record_failure", "HALF_OPEN")
    /\ breaker._state = "OPEN"
    /\ lastCall.before._opened_at < lastCall.at
    /\ breaker._opened_at = lastCall.at

(***************************************************************************)
(* Properties of the confidence engine (SpecConfidence).                   *)
(***************************************************************************)
Evaluated == evaluation # None

Recognized(step) == <<step.tool, step.action>> \in DOMAIN _INTENT_SPECS

\* An argument that is None or a blank string.
Empty(value) == value \in {NoneValue, "", "  "}

\* The argument named field is absent, None or blank.
Lacks(step, field) == field \notin DOMAIN step.args \/ Empty(step.args[field])

LacksRequired(step) ==
    \E field \in Range(_INTENT_SPECS[<<step.tool, step.action>>].required_fields) :
        Lacks(step, field)

LacksOptional(step) ==
    \A field \in Range(_INTENT_SPECS[<<step.tool, step.action>>].optional_fields) :
        Lacks(step, field)

\* A callback is registered for the step's intent and returns a score.
Scored(step) ==
    /\ IntentOf(step) \in DOMAIN retrievers
    /\ ~retrievers[IntentOf(step)].raises

\* C15: for a step that is a recognized intent and lacks a required field
\* (absent, None or blank), with or without a retrieval callback registered,
\* the callback is not called, the parse score is at most 0.34, and the decision
\* is clarify when some argument is not empty and block otherwise.
C15_MissingFieldGate ==
    (Evaluated /\ Recognized(confStep) /\ LacksRequired(confStep)) =>
        /\ evaluation.provider_calls = 0
        /\ evaluation.parse <= 340
        /\ evaluation.decision =
              (IF \E key \in DOMAIN confStep.args : ~Empty(confStep.args[key])
               THEN "clarify" ELSE "block")

C15_Witness ==
    /\ Evaluated
    /\ confStep.tool = "gmail" /\ confStep.action = "send"
    /\ DOMAIN confStep.args = {"to", "subject"}
    /\ confStep.args["to"] = " daft " /\ confStep.args["subject"] = "  "
    /\ "communication.send_email" \in DOMAIN retrievers
    /\ retrievers["communication.send_email"].result = 1000
    /\ evaluation.provider_calls = 0
    /\ evaluation.decision = "clarify"

\* C16: for a step that is a recognized intent with every required field
\* present and a registered callback that returns a score, the final score is
\* no lower under any callback returning at least as much, and, when the step
\* has no optional field, no lower for the same step with an optional field
\* added and the callback returning the same.
C16_Monotone ==
    (Evaluated /\ Recognized(confStep) /\ ~LacksRequired(confStep) /\ Scored(confStep)) =>
        /\ \A cb \in Callbacks :
              (~cb.raises /\ cb.result >= retrievers[IntentOf(confStep)].result) =>
                  evaluate_step(confStep, IntentOf(confStep) :> cb).final >= evaluation.final
        /\ LacksOptional(confStep) =>
              \A field \in Range(_INTENT_SPECS[<<confStep.tool, confStep.action>>].optional_fields),
                 value \in {" daft ", IntValue} :
                  evaluate_step([confStep EXCEPT !.args = (field :> value) @@ @],
                                retrievers).final >= evaluation.final

C16_Witness ==
    /\ Evaluated /\ Scored(confStep)
    /\ confStep.tool = "local" /\ confStep.action = "media_play"
    /\ DOMAIN confStep.args = {"query"} /\ confStep.args["query"] = " daft "
    /\ retrievers["media.play"].result = 450
    /\ evaluation.final = 720
    /\ evaluate_step([confStep EXCEPT !.args = ("artist" :> " daft ") @@ @],
                     retrievers).final = 780

(***************************************************************************)
(* Properties of the sanitizer and of request_approval (SpecSanitizer).    *)
(***************************************************************************)
\* request_approval has prepared a plan: issuedPlan is sanitize_plan(rawPlan).
Prepared == issuedPlan # None

\* LLM_PROVIDER names a provider that sends data off the device.
OutboundSetting == llmProvider \in {"openai", " OpenAI ", "gemini", "groq"}

\* C18: with an outbound provider and redaction_required true on the plan, the
\* sanitized plan has the same steps in order; in every openai step each
\* string-valued argument is "[REDACTED]", or "redacted@example.com" when it is
\* named "to"; every step of another tool has the args of the input.
C18_Redaction ==
    (Prepared /\ OutboundSetting /\ rawPlan.data_outbound.redaction_required) =>
        /\ Len(issuedPlan.steps) = Len(rawPlan.steps)
        /\ \A i \in DOMAIN rawPlan.steps :
              IF rawPlan.steps[i].tool = "openai"
              THEN \A key \in DOMAIN rawPlan.steps[i].args :
                      rawPlan.steps[i].args[key] \notin {NoneValue, IntValue} =>
                          /\ key \in DOMAIN issuedPlan.steps[i].args
                          /\ issuedPlan.steps[i].args[key] =
                                (IF key = "to" THEN "redacted@example.com" ELSE "[REDACTED]")
              ELSE issuedPlan.steps[i].args = rawPlan.steps[i].args

C18_Witness ==
    /\ Prepared
    /\ llmProvider = " OpenAI "
    /\ rawPlan.data_outbound.redaction_required
    /\ Len(rawPlan.steps) = 2
    /\ rawPlan.steps[1].tool = "openai" /\ rawPlan.steps[1].args = MailArgs
    /\ rawPlan.steps[2].tool = "gmail"
    /\ issuedPlan.steps[1].args =
          [to |-> "redacted@example.com", subject |-> "[REDACTED]", body |-> "[REDACTED]"]
    /\ issuedPlan.steps[2].args = MailArgs

\* C19: with a provider that is not outbound, the sanitized plan has to_openai
\* and redaction_required false and every step's args, those of openai steps
\* included, as in the input.
C19_LocalUntouched ==
    (Prepared /\ ~OutboundSetting) =>
        /\ ~issuedPlan.data_outbound.to_openai
        /\ ~issuedPlan.data_outbound.redaction_required
        /\ Len(issuedPlan.steps) = Len(rawPlan.steps)
        /\ \A i \in DOMAIN rawPlan.steps : issuedPlan.steps[i].args = rawPlan.steps[i].args

C19_Witness ==
    /\ Prepared
    /\ llmProvider = NoneValue
    /\ rawPlan.data_outbound.to_openai /\ rawPlan.data_outbound.redaction_required
    /\ rawPlan.steps[1].tool = "openai" /\ rawPlan.steps[1].args = [prompt |-> "secret"]
    /\ ~issuedPlan.data_outbound.to_openai
    /\ issuedPlan.steps[1].args = [prompt |-> "secret"]

\* C20: the approval request_approval returns carries the signature computed over
\* the sanitized plan it returns; when a bound field of the raw plan differs from
\* the sanitized plan, executing the raw plan with that approval raises
\* ExecutionError and no plugin method is called.
C20_SanitizedCopySigned ==
    /\ (Prepared /\ issuedApproval # None) =>
          issuedApproval.policy_signature =
              compute_policy_signature(issuedPlan, issuedApproval.approved_steps,
                                       issuedApproval.constraints,
                                       issuedApproval.requires_confirmation, signature_secret)
    /\ (Executed /\ Prepared /\ plan = rawPlan
        /\ BoundPlanFields(rawPlan) # BoundPlanFields(issuedPlan)) =>
          /\ execError # ""
          /\ calls = <<>>

C20_Witness ==
    /\ Executed /\ Prepared /\ plan = rawPlan
    /\ rawPlan.steps[1].tool = "openai" /\ rawPlan.steps[1].args = [prompt |-> "secret"]
    /\ issuedPlan.steps[1].args = [prompt |-> "[REDACTED]"]
    /\ execError = "Execution refused: approval signature invalid or tampered"
    /\ calls = <<>>

(***************************************************************************)
(* Properties of the application (SpecApp).  trace holds the calls made    *)
(* by the latest call of the application.                                  *)
(***************************************************************************)
\* The latest call was run_request_sync or run_request_streaming.
ByHandler ==
    request # None /\ request.op \in {"run_request_sync", "run_request_streaming"}

\* The i-th call of the trace is allow_request returning false.
Refused(i) == trace[i] = Event("allow_request", "false")

\* The i-th call of the trace is a plugin's execute or stream_execute.
Invoked(i) == trace[i].op \in {"execute", "stream_execute"}

\* The i-th call is made inside a plugin: an execute or stream_execute precedes it.
InPlugin(i) == \E j \in 1..(i - 1) : Invoked(j)

\* The plugin call inside which the i-th call is made.
Enclosing(i) == CHOOSE j \in 1..(i - 1) : Invoked(j) /\ \A k \in (j + 1)..(i - 1) : ~Invoked(k)

\* The calls from the i-th on that belong to the same plugin call.
SamePluginCall(i) ==
    { k \in i..Len(trace) : \A l \in (i + 1)..k : trace[l].op # "validate_args" }

\* C14: when allow_request returns false the backend client is not called: a
\* request handler that asked returns the llm_unavailable response with the
\* limited-mode message, having requested no approval and run no plugin; a
\* plugin's execute or stream_execute that asked returns the limited-mode
\* message without calling the client, record_success or record_failure.
C14_LimitedMode ==
    \A i \in DOMAIN trace :
        Refused(i) =>
            IF InPlugin(i)
            THEN /\ \A k \in SamePluginCall(i) :
                       trace[k].op \notin {"client", "record_success", "record_failure"}
                 /\ results # None =>
                       results[trace[Enclosing(i)].arg] =
                           [assistant_message |-> LIMITED_MODE_MESSAGE]
            ELSE /\ ByHandler
                 /\ "error" \in DOMAIN response
                 /\ response = [error |-> "llm_unavailable",
                                message |-> LIMITED_MODE_MESSAGE]
                 /\ i = Len(trace)
                 /\ approval = None
                 /\ calls = <<>>
                 /\ rawPlan # None => _plan_requires_llm(rawPlan)

\* A plugin asked the open breaker and answered with the limited-mode message.
C14_Witness ==
    /\ request # None
    /\ request.op \in {"execute_plan", "execute_plan_streaming"}
    /\ \E i \in DOMAIN trace : Refused(i) /\ InPlugin(i)
    /\ results # None
    /\ results["step-1"] = [assistant_message |-> LIMITED_MODE_MESSAGE]

\* A request handler found the breaker open.
C14_HandlerRefused ==
    /\ ByHandler
    /\ \E i \in DOMAIN trace : Refused(i)

C17_Refused ==
    /\ ByHandler
    /\ \E j \in DOMAIN trace : trace[j] = Event("evaluate_plan", "clarify")

\* A request was blocked at the confidence gate.
C17_Blocked ==
    /\ ByHandler
    /\ \E j \in DOMAIN trace : trace[j] = Event("evaluate_plan", "block")

\* A request was rejected by the PolicyEngine.
C17_Rejected ==
    /\ ByHandler
    /\ \E k \in DOMAIN trace : trace[k] = Event("evaluate", "raised")

(***************************************************************************)
(* Properties of the audit log under SpecSanitizer: the records LogRequest *)
(* appended for rawPlan, the plan as the caller built it.                  *)
(***************************************************************************)
\* The string-valued arguments of the openai steps of p.
OpenAIStrings(p) ==
    UNION { { p.steps[i].args[key] : key \in DOMAIN p.steps[i].args } \ {NoneValue, IntValue}
            : i \in { j \in DOMAIN p.steps : p.steps[j].tool = "openai" } }

\* The argument values found in p, whatever the step's tool.
StoredValues(p) ==
    UNION { { p.steps[i].args[key] : key \in DOMAIN p.steps[i].args } : i \in DOMAIN p.steps }

\* In the stored plan every string argument of an openai step is the marker,
\* or the placeholder address when it is named "to".
OpenAIArgsRedacted(given, stored) ==
    /\ Len(stored.steps) = Len(given.steps)
    /\ \A i \in DOMAIN given.steps :
          given.steps[i].tool = "openai" =>
              \A key \in DOMAIN given.steps[i].args :
                  given.steps[i].args[key] \notin {NoneValue, IntValue} =>
                      /\ key \in DOMAIN stored.steps[i].args
                      /\ stored.steps[i].args[key] =
                            (IF key = "to" THEN "redacted@example.com" ELSE "[REDACTED]")

\* C21 as stated: every record holds sanitize_plan of the plan given; with an
\* outbound provider and redaction required its openai steps' string arguments
\* are the marker or the placeholder address, and no string argument value of
\* an openai step of the plan given is found anywhere in the stored plan.
C21_RawValuesNowhere ==
    \A n \in DOMAIN auditLog :
        /\ auditLog[n].plan = sanitize_plan(rawPlan, llmProvider)
        /\ (OutboundSetting /\ rawPlan.data_outbound.redaction_required) =>
              /\ OpenAIArgsRedacted(rawPlan, auditLog[n].plan)
              /\ OpenAIStrings(rawPlan) \cap StoredValues(auditLog[n].plan) = {}

\* C21, amended: every record holds sanitize_plan of the plan given; with an
\* outbound provider and redaction required its openai steps' string arguments
\* are the marker or the placeholder address, so none of their values is left
\* in an openai step, while the steps of every other tool are stored with the
\* arguments given, the same values included.
C21_StoredPlanSanitized ==
    \A n \in DOMAIN auditLog :
        /\ auditLog[n].plan = sanitize_plan(rawPlan, llmProvider)
        /\ (OutboundSetting /\ rawPlan.data_outbound.redaction_required) =>
              /\ OpenAIArgsRedacted(rawPlan, auditLog[n].plan)
              /\ OpenAIStrings(rawPlan) \cap OpenAIStrings(auditLog[n].plan) = {}
              /\ \A i \in DOMAIN rawPlan.steps :
                    rawPlan.steps[i].tool # "openai" =>
                        auditLog[n].plan.steps[i] = rawPlan.steps[i]

C21_Witness ==
    /\ Len(auditLog) = 1
    /\ llmProvider = "openai"
    /\ rawPlan.data_outbound.redaction_required
    /\ Len(rawPlan.steps) = 2
    /\ rawPlan.steps[1].tool = "openai" /\ rawPlan.steps[1].args = MailArgs
    /\ rawPlan.steps[2].tool = "gmail" /\ rawPlan.steps[2].args = MailArgs
    /\ auditLog[1].plan.steps[1].args =
          [to |-> "redacted@example.com", subject |-> "[REDACTED]", body |-> "[REDACTED]"]
    /\ auditLog[1].plan.steps[2].args = MailArgs
    /\ auditLog[1].plan # rawPlan

(***************************************************************************)
(* Properties of the application's audit log (SpecApp).                    *)
(***************************************************************************)
\* The calls of audit.log_request made by the latest call of the application.
LogRequests == { i \in DOMAIN trace : trace[i].op = "log_request" }

\* C22 as stated: a request handler that built a plan appends exactly one
\* record to the audit log, a record of that request, whether the request ended
\* with results, with a PolicyError or with an ExecutionError.
C22_EveryAttemptRecorded ==
    (ByHandler /\ rawPlan # None) =>
        /\ Cardinality(LogRequests) = 1
        /\ auditLog # <<>>
        /\ auditLog[Len(auditLog)].user_input = request.user_input

(***************************************************************************)
(* Properties of the executor's loop (Spec).                               *)
(***************************************************************************)
IsPluginCall(c) == c.method \in {"execute", "stream_execute"}

\* The plugin's execute / stream_execute calls of the latest run, in order: the
\* k-th is the one made for the k-th step of the plan.
PluginCalls == SelectSeq(calls, IsPluginCall)

\* The latest run of the executor was execute_streaming.
Streaming == Executed /\ entry = "execute_streaming"

\* C23 as stated: execute_streaming refuses what execute refuses, and for each
\* step it calls the plugin's stream_execute exactly when the step's id has a
\* chunk callback in stream_callbacks, and the plugin's execute otherwise, also
\* when only a stop predicate is registered for the step.
C23_StreamsOnCallbackOnly ==
    Streaming =>
        /\ execError = execute(plan, approval).error
        /\ \A k \in DOMAIN PluginCalls :
              /\ PluginCalls[k].action = plan.steps[k].action
              /\ PluginCalls[k].method = "stream_execute" <=> plan.steps[k].id \in callbacks

\* What the loop does: stream_execute when a callback or a stop predicate is
\* registered for the step.
StreamsOnCallbackOrStop ==
    Streaming =>
        /\ execError = execute(plan, approval).error
        /\ \A k \in DOMAIN PluginCalls :
              /\ PluginCalls[k].action = plan.steps[k].action
              /\ PluginCalls[k].method = "stream_execute"
                    <=> plan.steps[k].id \in callbacks \cup stops

\* Step k of the plan fails one of the checks of its iteration: its id is not
\* approved, the plan's domain or origin forbids it, no plugin is registered for
\* its tool, or the plugin's validate_args rejects its arguments.
FailsStepCheck(k) ==
    LET step == plan.steps[k]
    IN  \/ ~InSeq(step.id, approval.approved_steps)
        \/ plan.domain = "productivity" /\ step.tool = "system"
        \/ plan.domain = "system" /\ plan.origin # "router"
        \/ plan.domain = "system" /\ step.tool # "system"
        \/ step.tool \notin DOMAIN plugins
        \/ ~validate_args(plugins[step.tool], step.action, step.args)

\* C24: execute takes the steps in plan order, one at a time: the calls it makes
\* are validate_args then execute for step 1, then for step 2, and so on; when
\* step k fails a check of its iteration, execute raises ExecutionError and the
\* plugin's execute is called neither for step k nor for a later step.
C24_InOrderStopAtFailure ==
    (Executed /\ entry = "execute") =>
        /\ \A i \in DOMAIN calls :
              calls[i] = Call(IF i % 2 = 1 THEN "validate_args" ELSE "execute",
                              plan.steps[(i + 1) \div 2])
        /\ approval # None =>
              \A k \in DOMAIN plan.steps :
                  FailsStepCheck(k) =>
                      /\ execError # ""
                      /\ results = None
                      /\ Len(PluginCalls) < k

C24_Witness ==
    /\ Executed /\ entry = "execute"
    /\ approval # None
    /\ Len(plan.steps) = 2
    /\ ~FailsStepCheck(1)
    /\ FailsStepCheck(2)
    /\ InSeq(plan.steps[2].id, approval.approved_steps)
    /\ plan.steps[2].tool \in DOMAIN plugins
    /\ calls = <<Call("validate_args", plan.steps[1]), Call("execute", plan.steps[1]),
                 Call("validate_args", plan.steps[2])>>
    /\ execError = "plugin rejected the arguments"

\* The latest call was execute_plan, on the plan and approval with which the
\* request handler before it had already called the executor.
SecondExecute == request # None /\ request.op = "execute_plan"

\* C25 as stated: an approval is consumed by the first execute; a second
\* execute of the same plan with the same approval raises ExecutionError and
\* calls no plugin.
C25_ApprovalConsumedOnce ==
    SecondExecute =>
        /\ raised = "ExecutionError"
        /\ calls = <<>>

\* The signature of the approval presented verifies for the plan presented.
SignatureVerifies ==
    /\ approval # None
    /\ approval.policy_signature # <<>>
    /\ approval.policy_signature =
          compute_policy_signature(plan, approval.approved_steps, approval.constraints,
                                   approval.requires_confirmation, signature_secret)

\* C26: for a plan of domain productivity the executor raises ExecutionError as
\* soon as it reaches a step whose tool is system, also when the approval's
\* signature verifies for the plan, as one signed by the caller with the shared
\* secret does: no method of the system plugin is called, and no plugin's
\* execute is called for that step or a later one.
C26_ProductivityNeverRunsSystem ==
    (Executed /\ plan.domain = "productivity") =>
        /\ \A i \in DOMAIN calls : calls[i].tool # "system"
        /\ \A k \in DOMAIN plan.steps :
              plan.steps[k].tool = "system" =>
                  /\ execError # ""
                  /\ results = None
                  /\ Len(PluginCalls) < k
                  /\ (SignatureVerifies /\ approval.approved
                      /\ \A j \in 1..k : InSeq(plan.steps[j].id, approval.approved_steps)
                      /\ \A l \in 1..(k - 1) : plan.steps[l].tool # "system"
                      /\ Len(PluginCalls) = k - 1) =>
                        execError = "Productivity domain cannot execute system actions"

C26_Witness ==
    /\ Executed /\ entry = "execute"
    /\ plan.domain = "productivity"
    /\ issuedApproval = None
    /\ approval = forged_approval(plan)
    /\ SignatureVerifies
    /\ Len(plan.steps) = 2
    /\ plan.steps[1].tool = "gmail"
    /\ plan.steps[2].tool = "system"
    /\ "system" \in DOMAIN plugins
    /\ Len(PluginCalls) = 1
    /\ execError = "Productivity domain cannot execute system actions"

\* The latest call was a request handler whose router recognized the phrase and
\* produced the plan itself.
RoutedByRouter ==
    /\ ByHandler
    /\ ~route(request.user_input).raises
    /\ route(request.user_input).plan # None

\* C27 as stated: a plan the router produces from a monitoring phrase passes
\* the confidence gate, is approved by the default PolicyEngine and is executed
\* with the SystemPlugin: the handler returns a result under step-1 and appends
\* an audit record whose approval has approved true.
C27_RouterPlansRun ==
    RoutedByRouter =>
        /\ plan = route(request.user_input).plan
        /\ raised = ""
        /\ approval # None /\ approval.approved
        /\ "step-1" \in DOMAIN response
        /\ \E i \in DOMAIN calls : calls[i].method = "execute" /\ calls[i].tool = "system"
        /\ auditLog # <<>>
        /\ auditLog[Len(auditLog)].approval.approved

\* What the code does: of the router's actions only those on the default
\* allowlist run; for another the handler raises PolicyError, having run no
\* plugin and appended no record.
RouterPlansRunWhenAllowlisted ==
    RoutedByRouter =>
        IF route(request.user_input).plan.steps[1].action \in DefaultAllowlist["system"]
        THEN /\ raised = ""
             /\ "step-1" \in DOMAIN response
             /\ auditLog # <<>> /\ auditLog[Len(auditLog)].approval.approved
        ELSE /\ raised = "PolicyError"
             /\ calls = <<>>
             /\ LogRequests = {}

(***************************************************************************)
(* Properties of the OpenAIClientPlugin's calls of its client (SpecApp).   *)
(***************************************************************************)
\* The breaker updates made after the i-th call of the trace, inside the same
\* plugin call.
UpdatesAfter(i) ==
    { k \in SamePluginCall(i) : k > i /\ trace[k].op \in {"record_success", "record_failure"} }

\* The chunk callback raised after the i-th call of the trace, a client call.
ChunkFailureAfter(i) ==
    i < Len(trace) /\ trace[i + 1] = Event("on_chunk", "raised")

\* The latest run of the plugins ended with the exception the client raised,
\* recorded on the breaker.
ClientErrorRaised ==
    /\ execError = "TimeoutError"
    /\ breaker # None
    /\ breaker._last_error = "TimeoutError"
    /\ breaker._fail_count >= 1 \/ breaker._state = "OPEN"

\* C28 as stated: every call of the client is followed by exactly one breaker
\* update, record_success when the call returned and record_failure when it
\* raised, and the exception it raised is raised again by the plugin.
C28_OneUpdatePerCall ==
    \A i \in DOMAIN trace :
        trace[i].op = "client" =>
            /\ Cardinality(UpdatesAfter(i)) = 1
            /\ trace[i].arg = "returned" =>
                  \A k \in UpdatesAfter(i) : trace[k].op = "record_success"
            /\ trace[i].arg = "raised" =>
                  /\ \A k \in UpdatesAfter(i) : trace[k] = Event("record_failure", "")
                  /\ ClientErrorRaised

\* What the code does: every call of the client is followed by exactly one
\* breaker update; when the call raised it is record_failure and the plugin
\* raises the same exception; when the call returned it is record_success,
\* unless the chunk callback stream_execute feeds inside the same try raised,
\* and then it is record_failure and the plugin raises the callback's exception.
OneUpdatePerTry ==
    \A i \in DOMAIN trace :
        trace[i].op = "client" =>
            /\ Cardinality(UpdatesAfter(i)) = 1
            /\ trace[i].arg = "returned" =>
                  \A k \in UpdatesAfter(i) :
                      IF ChunkFailureAfter(i)
                      THEN /\ trace[k] = Event("record_failure", "")
                           /\ execError = "RuntimeError"
                           /\ breaker._last_error = "RuntimeError"
                      ELSE /\ trace[k] = Event("record_success", "")
                           /\ "raised" \notin { trace[l].arg : l \in i..k }
            /\ trace[i].arg = "raised" =>
                  /\ \A k \in UpdatesAfter(i) : trace[k] = Event("record_failure", "")
                  /\ ClientErrorRaised

(***************************************************************************)
(* Properties of the retrieval callback's failure (SpecConfidence).        *)
(***************************************************************************)
\* A callback is registered for the step's intent and raises when called.
Failing(step) ==
    /\ IntentOf(step) \in DOMAIN retrievers
    /\ retrievers[IntentOf(step)].raises

\* C29: for a step of a recognized intent with every required field present
\* whose registered callback raises, evaluate_step returns an evaluation: the
\* callback was called once, the retrieval score is 0, the final score is 0.6
\* times the parse score, and the decision is the one of that final score
\* (soft_confirm from 0.55, clarify from 0.35, block below), never execute.
C29_RetrievalFailsSafe ==
    (Evaluated /\ Recognized(confStep) /\ ~LacksRequired(confStep) /\ Failing(confStep)) =>
        /\ evaluation.provider_calls = 1
        /\ evaluation.retrieval = 0
        /\ 10 * evaluation.final = 6 * evaluation.parse
        /\ evaluation.decision =
              (IF evaluation.final >= 550 THEN "soft_confirm"
               ELSE IF evaluation.final >= 350 THEN "clarify" ELSE "block")
        /\ evaluation.decision # "execute"
        /\ "retrieval failed: index offline" \in Range(evaluation.reasons)

C29_Witness ==
    /\ Evaluated /\ Failing(confStep)
    /\ confStep.tool = "local" /\ confStep.action = "media_play"
    /\ DOMAIN confStep.args = {"query", "artist"}
    /\ confStep.args["query"] = " daft " /\ confStep.args["artist"] = " daft "
    /\ evaluation.parse = 1000
    /\ evaluation.retrieval = 0
    /\ evaluation.final = 600
    /\ evaluation.decision = "soft_confirm"

(***************************************************************************)
(* Properties of evaluate_plan (SpecConfidence).                           *)
(***************************************************************************)
PlanEvaluated == planEvaluation # None

\* The earliest of the evaluations with the lowest final score.
LowestStep ==
    CHOOSE k \in DOMAIN planEvaluation.evaluations :
        /\ \A i \in DOMAIN planEvaluation.evaluations :
              planEvaluation.evaluations[k].final <= planEvaluation.evaluations[i].final
        /\ \A i \in 1..(k - 1) :
              planEvaluation.evaluations[i].final > planEvaluation.evaluations[k].final

\* C30: evaluate_plan evaluates every step, in order, and returns as the plan's
\* decision and final score those of the step with the lowest final score, the
\* earliest one when several have it; the plan's final score is at most every
\* step's final score.
C30_LowestStepGates ==
    PlanEvaluated =>
        /\ Len(planEvaluation.evaluations) = Len(confPlan.steps)
        /\ \A i \in DOMAIN confPlan.steps :
              planEvaluation.evaluations[i] = evaluate_step(confPlan.steps[i], retrievers)
        /\ planEvaluation.primary = planEvaluation.evaluations[LowestStep]
        /\ planEvaluation.decision = planEvaluation.evaluations[LowestStep].decision
        /\ planEvaluation.final = planEvaluation.evaluations[LowestStep].final
        /\ \A i \in DOMAIN planEvaluation.evaluations :
              planEvaluation.final <= planEvaluation.evaluations[i].final

C30_Witness ==
    /\ PlanEvaluated
    /\ Len(confPlan.steps) = 2
    /\ planEvaluation.evaluations[1].final = planEvaluation.evaluations[2].final
    /\ planEvaluation.evaluations[1].decision = "clarify"
    /\ planEvaluation.evaluations[2].decision = "block"
    /\ planEvaluation.decision = "clarify"
    /\ planEvaluation.final = 340

(***************************************************************************)
(* Properties of the evaluation log's failure (SpecLogging).               *)
(***************************************************************************)
\* confidence_logger.append raised while the latest request was handled.
AppendRaised == \E i \in DOMAIN trace : trace[i] = Event("append", "raised")

\* The decision evaluate_plan returned to the latest request.
DecisionOf ==
    trace[CHOOSE j \in DOMAIN trace : trace[j].op = "evaluate_plan"].arg

\* C31 as stated: when confidence_logger.append raises, the handler goes on as
\* if it had returned: on clarify or block it returns the clarification or the
\* refusal, otherwise it asks the PolicyEngine for the approval and, once
\* approved, runs the plan.
C31_LogFailureIgnored ==
    (ByHandler /\ AppendRaised) =>
        IF DecisionOf \in {"clarify", "block"}
        THEN /\ "error" \in DOMAIN response
             /\ response["error"] = (IF DecisionOf = "clarify" THEN "clarify" ELSE "blocked")
        ELSE /\ \E k \in DOMAIN trace : trace[k].op = "evaluate"
             /\ approval # None => \E i \in DOMAIN trace : Invoked(i)

\* What the code does: the exception of append leaves _evaluate_confidence and
\* reaches the handler's except clause: the failure is logged, request_failed
\* is returned, and neither the PolicyEngine nor a plugin is called.
LogFailureFailsRequest ==
    (ByHandler /\ AppendRaised) =>
        /\ response = request_failed
        /\ trace[Len(trace)] = _log_failure("OSError")
        /\ \A k \in DOMAIN trace : trace[k].op \notin {"evaluate", "execute", "stream_execute"}
        /\ approval = None
        /\ calls = <<>>

(***************************************************************************)
(* Properties of a plan relabelled after its review (Spec).                *)
(***************************************************************************)
\* The executor was handed the issued approval and the issued plan with its
\* origin replaced, every other field as reviewed.
OriginRelabelled ==
    /\ Executed /\ Issued
    /\ approval = issuedApproval
    /\ plan.origin # issuedPlan.origin
    /\ plan = [issuedPlan EXCEPT !.origin = plan.origin]

\* C32 as stated: a plan whose origin was changed between approval and execution
\* is refused with an ExecutionError before any plugin is called; in particular a
\* system-domain plan reviewed with origin = planner never runs by being
\* relabelled origin = router.
C32_RelabelledOriginRefused ==
    OriginRelabelled => (execError # "" /\ calls = <<>>)

\* What the code does: origin is not part of the signed payload, so a relabelled
\* plan passes the signature check and is judged by the origin it now carries.
RelabelledOriginTrusted ==
    OriginRelabelled =>
        /\ execError # "Execution refused: approval signature invalid or tampered"
        /\ (issuedPlan.domain = "system" /\ plan.origin = "router"
              /\ \A i \in DOMAIN plan.steps :
                    plan.steps[i].tool = "system" /\ step_error(plan, approval, plan.steps[i]) = "")
           => /\ execError \in {"", "plugin rejected the arguments"}
              /\ calls # <<>>
              /\ execError = "" => \E i \in DOMAIN calls : IsPluginCall(calls[i])

(***************************************************************************)
(* Properties of the confirmation flag (Spec).                             *)
(***************************************************************************)
\* The executor was handed the issued plan and approval, the approval asks for
\* the user's confirmation, and the context of the request does not carry it.
Unconfirmed ==
    /\ Executed /\ Issued /\ Unmodified
    /\ approval.requires_confirmation
    /\ ~context.user_confirmed

\* C33 as stated: for an approval with requires_confirmation = true no plugin is
\* invoked unless context.user_confirmed is true.
C33_NoRunWithoutConfirmation ==
    Unconfirmed => \A i \in DOMAIN calls : ~IsPluginCall(calls[i])

\* What the code does: neither flag is read after the approval is signed; the run
\* of a plan is the same whatever requires_confirmation and user_confirmed are.
ConfirmationNotConsulted ==
    (Executed /\ Issued /\ Unmodified) =>
        /\ entry = "execute" =>
              execError = execute(plan, [approval EXCEPT
                              !.requires_confirmation = FALSE,
                              !.policy_signature =
                                  compute_policy_signature(plan, approval.approved_steps,
                                      approval.constraints, FALSE, signature_secret)]).error
        /\ (Unconfirmed /\ ExecutionRulesHold(plan)) =>
              /\ execError = ""
              /\ \E i \in DOMAIN calls : IsPluginCall(calls[i])

(***************************************************************************)
(* Further properties of the circuit breaker (SpecBreaker).                *)
(***************************************************************************)
\* C34: with failure_threshold >= 1, after any sequence of allow_request,
\* record_success and record_failure the state is CLOSED, OPEN or HALF_OPEN; a
\* CLOSED breaker has a failure count below the threshold and no opening time; an
\* OPEN or HALF_OPEN breaker has a failure count of at least the threshold and an
\* opening time; the breaker becomes HALF_OPEN only by an allow_request on an OPEN
\* breaker.
C34_BreakerStateInvariant ==
    /\ breaker.failure_threshold >= 1
    /\ breaker._state \in {"CLOSED", "OPEN", "HALF_OPEN"}
    /\ breaker._state = "CLOSED" =>
          /\ breaker._fail_count < breaker.failure_threshold
          /\ breaker._opened_at = NoTime
    /\ breaker._state \in {"OPEN", "HALF_OPEN"} =>
          /\ breaker._fail_count >= breaker.failure_threshold
          /\ breaker._opened_at # NoTime
    /\ (breaker._state = "HALF_OPEN" /\ lastCall.before._state # "HALF_OPEN") =>
          LastCallWas("allow_request", "OPEN")

C34_Witness ==
    /\ LastCallWas("record_success", "HALF_OPEN")
    /\ lastCall.before._fail_count >= breaker.failure_threshold
    /\ lastCall.before._opened_at # NoTime
    /\ breaker._state = "CLOSED"
    /\ breaker._fail_count = 0
    /\ breaker._opened_at = NoTime

\* C35 as stated: a record_failure made on an OPEN breaker does not postpone the
\* recovery: an allow_request made afterwards, at or after the earlier opening time
\* plus cooldown_seconds, returns true and leaves the breaker HALF_OPEN.
C35_LateFailureKeepsRecovery ==
    LastCallWas("record_failure", "OPEN") =>
        \A t \in now..(MaxTime + MaxCooldown) :
            t >= lastCall.before._opened_at + breaker.cooldown_seconds =>
                /\ allow_request(breaker, t).returned
                /\ allow_request(breaker, t).breaker._state = "HALF_OPEN"

\* What the code does: the failure count of an OPEN breaker is already at the
\* threshold, so record_failure calls _open_breaker again, which stamps the opening
\* time with the time of the call: the cooldown starts anew.
LateFailureRestartsCooldown ==
    LastCallWas("record_failure", "OPEN") =>
        /\ breaker._state = "OPEN"
        /\ breaker._opened_at = lastCall.at
        /\ \A t \in now..(MaxTime + MaxCooldown) :
              allow_request(breaker, t).returned <=>
                  t >= lastCall.at + breaker.cooldown_seconds

\* C36 as stated: once an allow_request has moved the breaker from OPEN to
\* HALF_OPEN, every further allow_request returns false until record_success or
\* record_failure is called.
C36_SingleTrialAdmitted ==
    LastCallWas("allow_request", "HALF_OPEN") => ~lastCall.returned

\* What the code does: allow_request tests for OPEN only, so on a HALF_OPEN breaker
\* it returns true and leaves the state as it is.
HalfOpenAdmitsEveryCaller ==
    LastCallWas("allow_request", "HALF_OPEN") =>
        /\ lastCall.returned
        /\ breaker = lastCall.before

(***************************************************************************)
(* Properties of record_failure under concurrent callers (SpecThreads).    *)
(***************************************************************************)
\* Each of the two threads has called record_failure once on the breaker as
\* constructed with failure_threshold = 2, and both calls have returned.
BothFailuresRecorded ==
    /\ breaker.failure_threshold = 2
    /\ \A t \in Threads : threads[t] = Outside(1)

\* C37 as stated: with failure_threshold = 2, after two threads have each
\* returned from one record_failure on a CLOSED breaker, the breaker is OPEN with
\* a failure count of at least 2, under every interleaving of their steps.
C37_NoFailureLost ==
    BothFailuresRecorded => (breaker._state # "CLOSED" /\ breaker._fail_count >= 2)

\* What the code does: the two increments may read the same count, so the two
\* calls leave a failure count of 1 or of 2; the breaker is no longer CLOSED
\* exactly when the count reached 2.
FailuresCountedOnceOrTwice ==
    BothFailuresRecorded =>
        /\ breaker._fail_count \in {1, 2}
        /\ breaker._state = "CLOSED" <=> breaker._fail_count = 1

\* The lost update: both calls returned and the breaker is CLOSED with count 1.
LostFailure ==
    BothFailuresRecorded /\ breaker._state = "CLOSED" /\ breaker._fail_count = 1

(***************************************************************************)
(* Further properties of the sanitizer (SpecSanitizer).                    *)
(***************************************************************************)
\* The records the request handlers' call of log_request stored: it passes the
\* goal as user_input and the prepared plan.
PreparedRecords ==
    { i \in DOMAIN auditLog : auditLog[i].user_input = "draft a note" }

\* C38: under a fixed provider setting sanitize_plan(sanitize_plan(p)) equals
\* sanitize_plan(p), so the plan log_request stores when it is given the prepared
\* plan equals, field for field, the plan that was signed and executed.
C38_SanitizeIdempotent ==
    /\ sanitize_plan(sanitize_plan(rawPlan, llmProvider), llmProvider)
          = sanitize_plan(rawPlan, llmProvider)
    /\ \A i \in PreparedRecords :
          /\ auditLog[i].plan = issuedPlan
          /\ auditLog[i].approval # None =>
                auditLog[i].approval.policy_signature =
                    compute_policy_signature(auditLog[i].plan,
                        auditLog[i].approval.approved_steps,
                        auditLog[i].approval.constraints,
                        auditLog[i].approval.requires_confirmation, signature_secret)
          /\ (Executed /\ plan = issuedPlan) => auditLog[i].plan = plan

C38_Witness ==
    /\ Executed /\ execError = ""
    /\ plan = issuedPlan
    /\ issuedPlan # rawPlan
    /\ \E i \in DOMAIN issuedPlan.steps :
          /\ issuedPlan.steps[i].tool = "openai"
          /\ issuedPlan.steps[i].args # rawPlan.steps[i].args
          /\ issuedPlan.steps[i].args["prompt"] = "[REDACTED]"
    /\ PreparedRecords # {}
    /\ \A i \in PreparedRecords : auditLog[i].plan = plan

\* The values a string-valued argument is replaced with.
OtherStrings == {"another secret"}

\* The dicts that differ from args in the values of its string-valued keys only.
RevaluedArgs(args) ==
    { d \in [DOMAIN args -> OtherStrings \cup Range(args)] :
        \A key \in DOMAIN args :
            IF isinstance_str(args[key])
            THEN d[key] \in OtherStrings \cup {args[key]}
            ELSE d[key] = args[key] }

\* The plans identical to p except for the values of string-valued arguments of
\* its openai steps.
RECURSIVE RevaluedFrom(_, _)
RevaluedFrom(p, i) ==
    IF i > Len(p.steps)
    THEN {p}
    ELSE IF p.steps[i].tool # "openai"
    THEN RevaluedFrom(p, i + 1)
    ELSE UNION { RevaluedFrom([p EXCEPT !.steps[i].args = d], i + 1) :
                   d \in RevaluedArgs(p.steps[i].args) }

Revalued(p) == RevaluedFrom(p, 1)

\* The provider is outbound and the plan asks for redaction.
RedactionOn ==
    /\ is_outbound_llm_provider(get_llm_provider(llmProvider), llmProvider)
    /\ rawPlan.data_outbound.redaction_required

\* C39: with an outbound provider and redaction_required = true, plans that are
\* identical except for the values of string-valued arguments of openai steps
\* have the same sanitized plan, hence the same outcome of request_approval
\* (prepared plan, approval with its signature, or error) and the same audited
\* plan: the plan and approval held when request_approval has returned, and the
\* plan of the record log_request stored for the raw plan, are those of every
\* such plan.
C39_RedactionNoninterference ==
    RedactionOn =>
        \A q \in Revalued(rawPlan) :
            /\ sanitize_plan(q, llmProvider) = sanitize_plan(rawPlan, llmProvider)
            /\ (phase = "reviewed" /\ auditLog = <<>>) =>
                  LET r == request_approval(q, context, llmProvider)
                  IN  /\ r.plan = issuedPlan
                      /\ r.approval = issuedApproval
                      /\ r.error = policyError
            /\ \A i \in DOMAIN auditLog :
                  auditLog[i].user_input = "test" =>
                      auditLog[i].plan = log_request("test", q, None, None, llmProvider).plan

C39_Witness ==
    /\ RedactionOn
    /\ phase = "reviewed"
    /\ issuedApproval # None
    /\ \E q \in Revalued(rawPlan) :
          /\ q # rawPlan
          /\ \E i \in DOMAIN q.steps : q.steps[i].args # rawPlan.steps[i].args
          /\ request_approval(q, context, llmProvider).approval.policy_signature
                = approval.policy_signature
    /\ issuedPlan # rawPlan

(***************************************************************************)
(* Further properties of evaluate_plan (SpecConfidence).                   *)
(***************************************************************************)
\* A step that is a recognized intent lacking a required field, or of no
\* recognized intent.
Weak(step) == Recognized(step) => LacksRequired(step)

\* C40: if a step of the plan is a recognized intent lacking a required field, or
\* is of no recognized intent, evaluate_plan returns neither execute nor
\* soft_confirm, whatever the other steps and the retrieval callback: the final
\* score of such a step is at most 0.34 and strictly below the final score of
\* every step that has all its required fields.
C40_WeakStepGatesPlan ==
    (PlanEvaluated /\ \E i \in DOMAIN confPlan.steps : Weak(confPlan.steps[i])) =>
        /\ planEvaluation.decision \in {"clarify", "block"}
        /\ Weak(confPlan.steps[LowestStep])
        /\ \A i \in DOMAIN confPlan.steps :
              Weak(confPlan.steps[i]) =>
                  /\ planEvaluation.evaluations[i].final <= 340
                  /\ \A j \in DOMAIN confPlan.steps :
                        ~Weak(confPlan.steps[j]) =>
                            planEvaluation.evaluations[i].final
                                < planEvaluation.evaluations[j].final

C40_Witness ==
    /\ PlanEvaluated
    /\ Len(confPlan.steps) = 2
    /\ ~Weak(confPlan.steps[1]) /\ Scored(confPlan.steps[1])
    /\ planEvaluation.evaluations[1].decision = "execute"
    /\ planEvaluation.evaluations[1].final = 1000
    /\ ~Recognized(confPlan.steps[2])
    /\ planEvaluation.evaluations[2].final <= 340
    /\ planEvaluation.decision = "block"
    /\ planEvaluation.primary = planEvaluation.evaluations[2]

====
